---------------------------- MODULE Spec2Model ----------------------------
(***************************************************************************)
(* A model of the dbm data pipeline: the catalog (db_manager.py), the      *)
(* Classifier service (data_processor.py), the Ingestor service            *)
(* (data_ingestor.py) and the parts of the HTTP facade (data_api.py) that  *)
(* touch the catalog and the blob directory.                               *)
(*                                                                         *)
(* Conventions                                                             *)
(*   - ids (uuid4 strings) are "id1", "id2", ...; None/NULL is "NULL".     *)
(*   - a MIME type "a/b" is the pair <<"a", "b">>, so that startswith      *)
(*     ('text/') and split('/')[-1] are computed, not assumed.             *)
(*   - a file name is [stem, ext], the result of os.path.splitext.         *)
(*   - scores are integers in thousandths (0.65 is 650).                   *)
(*   - tag lists are sets: _manage_tags and the Classifier apply set().    *)
(***************************************************************************)
EXTENDS Integers, Sequences, FiniteSets, TLC

VARIABLES
    db,         \* the SQLite catalog: data_objects, tags, data_object_tags
    storage,    \* FILE_STORAGE_DIR: stored path -> blob content
    input_dir,  \* INPUT_MONITOR_DIR: file name -> file content
    clock,      \* datetime.now(), in ticks
    uuids,      \* number of uuid4() values drawn so far
    proc,       \* Classifier replicas: position and locals of process_data_objects
    ing,        \* Ingestor replicas: position and locals of ingest_new_data
    api,        \* facade requests in flight (delete_data_object_api)
    faults,     \* how many faults of each kind the environment has injected
    conn        \* callers of db_manager and request threads of the facade

vars == <<db, storage, input_dir, clock, uuids, proc, ing, api, faults, conn>>

----------------------------------------------------------------------------
(* Bounds of the model *)

NumReplicas == 2     \* Classifier replicas
NumEntries == 2      \* catalog entries present when the Classifier starts
MaxCrashes == 1      \* crashes of a Classifier process
MaxApiDeletes == 1   \* DELETE requests the facade serves
MaxScans == 2        \* scans of the input directory per Ingestor
MaxItems == 2        \* elements of the largest dropped JSON array
MaxFiles == 2        \* files dropped into the input directory
MaxClock == 2        \* clock ticks that may pass inside the scans
MaxInsertFaults == 1 \* insert_data_object calls that fail or raise
MaxRemoveFaults == 1 \* os.remove calls on a source file that fail
MaxWriteFaults == 1  \* writes of a blob (the copy, an element's file) that fail
NumClients == 2      \* concurrent callers of db_manager (request threads)
MaxCalls == 2        \* calls of db_manager each caller makes
MaxInserts == 1      \* insert_data_object calls of the callers altogether
MaxRetags == 3        \* updates of the tags before the graph is asked for
MaxTicks == 1        \* seconds that pass while the callers run

Replicas == 1..NumReplicas
Clients == 1..NumClients

NULL == "NULL"

----------------------------------------------------------------------------
(* Small helpers *)

Digits == <<"0", "1", "2", "3", "4", "5", "6", "7", "8", "9">>

\* str(n) for a non-negative integer.
RECURSIVE NatToStr(_)
NatToStr(n) ==
    IF n < 10 THEN Digits[n + 1]
    ELSE NatToStr(n \div 10) \o Digits[(n % 10) + 1]

\* uuid.uuid4(): the n-th value drawn; distinct draws give distinct strings.
Uuid(n) == "id" \o NatToStr(n)

Max(a, b) == IF a >= b THEN a ELSE b
Min(a, b) == IF a <= b THEN a ELSE b

Range(s) == { s[i] : i \in 1..Len(s) }

\* A file name is the pair os.path.splitext gives: the stem as the list of its
\* words (joined by "_" in the name) and the extension without its dot.
Name(stem, ext) == [stem |-> stem, ext |-> ext]

RECURSIVE Join(_)
Join(words) ==
    IF Len(words) = 0 THEN ""
    ELSE IF Len(words) = 1 THEN words[1]
    ELSE words[1] \o "_" \o Join(Tail(words))

\* The file name as one string.
NameStr(n) == Join(n.stem) \o (IF n.ext = "" THEN "" ELSE "." \o n.ext)

----------------------------------------------------------------------------
(* db_manager.py: the catalog.                                             *)
(*   db.data_objects     id -> row                                         *)
(*   db.tags             the tag vocabulary: the set of the names.  name   *)
(*                       is UNIQUE, so a tag's AUTOINCREMENT id and its    *)
(*                       name determine each other; the model keys a tag   *)
(*                       by its name                                       *)
(*   db.data_object_tags set of <<data_object_id, tag>>                    *)

EmptyDb == [data_objects |-> <<>>, tags |-> {}, data_object_tags |-> {}]

Ids(d) == DOMAIN d.data_objects

\* The tag names the subquery of get_data_objects / get_data_object_by_id
\* joins to an object (FROM tags t JOIN data_object_tags dot ... WHERE
\* dot.data_object_id = do.id).
TagsOf(d, object_id) ==
    { p[2] : p \in { q \in d.data_object_tags : q[1] = object_id } }

\* _manage_tags that links the tags without dropping the old associations.
_manage_tags_keeping_old(d, object_id, tags_list) ==
    IF tags_list = {} THEN [ok |-> TRUE, db |-> d]
    ELSE IF object_id \notin Ids(d) THEN [ok |-> FALSE, db |-> d]
    ELSE [ok |-> TRUE,
          db |-> [d EXCEPT !.tags = @ \cup tags_list,
                           !.data_object_tags =
                               @ \cup { <<object_id, t>> : t \in tags_list }]]

\* _manage_tags on a database that does not enforce the FOREIGN KEY of
\* data_object_tags.
_manage_tags_unchecked(d, object_id, tags_list) ==
    [ok |-> TRUE,
     db |-> [d EXCEPT !.tags = @ \cup tags_list,
                      !.data_object_tags =
                          { p \in @ : p[1] # object_id }
                              \cup { <<object_id, t>> : t \in tags_list }]]

\* _manage_tags: drop the object's associations, upsert every tag name, link.
\* The FOREIGN KEY of data_object_tags (PRAGMA foreign_keys = ON) makes the
\* link INSERT raise sqlite3.IntegrityError when the object row is absent.
_manage_tags(d, object_id, tags_list) ==
    LET kept == { p \in d.data_object_tags : p[1] # object_id }
        cleared == [d EXCEPT !.data_object_tags = kept]
    IN  IF tags_list = {} THEN [ok |-> TRUE, db |-> cleared]
        ELSE IF object_id \notin Ids(d) THEN [ok |-> FALSE, db |-> d]
        ELSE [ok |-> TRUE,
              db |-> [d EXCEPT !.tags = @ \cup tags_list,
                               !.data_object_tags =
                                   kept \cup { <<object_id, t>> : t \in tags_list }]]

\* The row insert_data_object writes, from its keyword arguments.
NewRow(name, file_type, location, summary, parent_id, item_key, now) ==
    [name |-> name, type |-> file_type, source |-> NULL,
     content_location |-> location, content |-> summary,
     quality_score |-> 0, status |-> "new", created_at |-> now,
     last_updated |-> now, source_original_id |-> parent_id,
     source_item_key |-> item_key]

\* insert_data_object: BEGIN; INSERT the row; _manage_tags; COMMIT.  Any
\* sqlite3.Error rolls back and returns None ("NULL").  The FOREIGN KEY of
\* source_original_id fails the INSERT when the parent row is absent.
insert_data_object(d, new_id, row, tags) ==
    LET tags_to_insert == IF tags = {} THEN {"unclassified"} ELSE tags
        fk_ok == row.source_original_id = NULL \/ row.source_original_id \in Ids(d)
        d1 == [d EXCEPT !.data_objects =
                 [i \in Ids(d) \cup {new_id} |->
                    IF i = new_id THEN row ELSE d.data_objects[i]]]
        m == _manage_tags(d1, new_id, tags_to_insert)
    IN  IF fk_ok /\ new_id \notin Ids(d) /\ m.ok
        THEN [ret |-> new_id, db |-> m.db]
        ELSE [ret |-> NULL, db |-> d]

NoTags == {"<tags not supplied>"}

\* The columns of data_objects other than id (lines 38-53).
Columns ==
    {"name", "type", "source", "content_location", "content", "quality_score",
     "status", "created_at", "last_updated", "source_original_id",
     "source_item_key"}

\* update_data_object on a database that does not enforce the FOREIGN KEY of
\* source_original_id.
update_data_object_without_foreign_key(d, object_id, fields, tags, now) ==
    LET exists == object_id \in Ids(d)
        updates == DOMAIN fields \ {"id", "last_updated"}
        rows_updated == IF exists THEN 1 ELSE 0
        d1 == IF exists
              THEN [d EXCEPT !.data_objects[object_id] =
                      [f \in DOMAIN @ |->
                         IF f = "last_updated" THEN now
                         ELSE IF f \in updates THEN fields[f] ELSE @[f]]]
              ELSE d
        m == IF tags = NoTags THEN [ok |-> TRUE, db |-> d1]
             ELSE _manage_tags(d1, object_id, tags)
    IN  IF ~(updates \subseteq Columns) \/ ~m.ok THEN [ret |-> FALSE, db |-> d]
        ELSE [ret |-> rows_updated # 0, db |-> m.db]

\* update_data_object(object_id, **kwargs) at the time `now`: fields is the
\* record of the keyword arguments other than tags; tags is NoTags when not
\* supplied.  The key id is skipped (line 341); last_updated is always among
\* the updates (line 338), so the UPDATE always runs and rows_updated is its
\* rowcount.  A key that is no column makes the UPDATE raise
\* sqlite3.OperationalError, and a source_original_id that names no row makes
\* the UPDATE of an existing row raise sqlite3.IntegrityError (the FOREIGN KEY
\* of line 51 under PRAGMA foreign_keys = ON): rollback, False.
update_data_object(d, object_id, fields, tags, now) ==
    LET exists == object_id \in Ids(d)
        updates == DOMAIN fields \ {"id", "last_updated"}
        rows_updated == IF exists THEN 1 ELSE 0
        fk_ok == \/ ~exists
                 \/ "source_original_id" \notin updates
                 \/ fields.source_original_id = NULL
                 \/ fields.source_original_id \in Ids(d)
        d1 == IF exists
              THEN [d EXCEPT !.data_objects[object_id] =
                      [f \in DOMAIN @ |->
                         IF f = "last_updated" THEN now
                         ELSE IF f \in updates THEN fields[f] ELSE @[f]]]
              ELSE d
        m == IF tags = NoTags THEN [ok |-> TRUE, db |-> d1]
             ELSE _manage_tags(d1, object_id, tags)
    IN  IF ~(updates \subseteq Columns) \/ ~fk_ok \/ ~m.ok THEN [ret |-> FALSE, db |-> d]
        ELSE [ret |-> rows_updated # 0, db |-> m.db]

\* A DELETE that removes the named rows alone.
NoCascade(d, doomed) == doomed

\* ON DELETE CASCADE from a row to the rows whose source_original_id names it.
RECURSIVE Cascade(_, _)
Cascade(d, doomed) ==
    LET more == { i \in Ids(d) : d.data_objects[i].source_original_id \in doomed }
    IN IF more \subseteq doomed THEN doomed ELSE Cascade(d, doomed \cup more)

\* delete_data_object: DELETE the row; the cascades remove its items and every
\* association of a removed row.  The tag vocabulary is not touched.
delete_data_object(d, object_id) ==
    IF object_id \notin Ids(d) THEN [ret |-> FALSE, db |-> d]
    ELSE LET doomed == Cascade(d, {object_id})
         IN [ret |-> TRUE,
             db |-> [d EXCEPT
                !.data_objects = [i \in Ids(d) \ doomed |-> d.data_objects[i]],
                !.data_object_tags = { p \in @ : p[1] \notin doomed }]]

\* SYSTEM_TAG_STOP_LIST (lines 13-19); its one name outside ASCII is written
\* by its code points.
SYSTEM_TAG_STOP_LIST ==
    {"item", "json", "json_item", "json_container", "unclassified",
     "unclassified_list", "text", "image", "pdf", "docx", "xlsx", "csv", "txt",
     "md", "jpg", "jpeg", "png", "gif", "bmp", "svg", "zip", "gz", "tar",
     "text_llm_failed", "json_llm_failed", "image_llm_failed",
     "image_base64_error", "processing_error", "file_not_found_error",
     "json_decode_error", "invalid_json", "needs_review", "object list",
     "U+4E2D U+6587 U+6587 U+672C", "chinese text"}

\* The AUTOINCREMENT ids the tags table may have given the names of the
\* vocabulary: name is UNIQUE, so distinct names have distinct ids; which name
\* got the smaller id depends on the order the tags were first inserted in
\* (for the tags of one call, the iteration order of set(tags_list)).
TagIds(d) ==
    { f \in [d.tags -> 1..Cardinality(d.tags)] :
        \A a, b \in d.tags : a # b => f[a] # f[b] }

\* A join condition that pairs every two different tags in both orders.
TagIdDiffers(tag_id, a, b) == tag_id[a] # tag_id[b]

\* dot1.tag_id < dot2.tag_id (line 441).
TagIdLess(tag_id, a, b) == tag_id[a] < tag_id[b]

\* get_tag_graph_data(min_frequency, min_link_strength), lines 403-457, on a
\* catalog whose tags have the ids tag_id.  node_query joins tags to
\* data_object_tags, drops the names of the stop list, groups by name and
\* keeps the groups with frequency >= min_frequency.  link_query joins
\* data_object_tags to itself on the object, groups the rows by the two names
\* and keeps the groups with strength >= min_link_strength; a link is emitted
\* when both its names are among the nodes.  symbolSize is in tenths.
get_tag_graph_data(d, tag_id, min_frequency, min_link_strength) ==
    LET frequency(t) == Cardinality({ p \in d.data_object_tags : p[2] = t })
        joined == { p[2] : p \in d.data_object_tags }
        nodes == { [name |-> t, value |-> frequency(t),
                    symbolSize |-> 100 + frequency(t) * 25] :
                   t \in { u \in joined \ SYSTEM_TAG_STOP_LIST :
                             frequency(u) >= min_frequency } }
        valid_node_names == { n.name : n \in nodes }
        rows == { r \in d.data_object_tags \X d.data_object_tags :
                    /\ r[1][1] = r[2][1]
                    /\ TagIdLess(tag_id, r[1][2], r[2][2]) }
        strength(source, target) ==
            Cardinality({ r \in rows : r[1][2] = source /\ r[2][2] = target })
        groups == { <<r[1][2], r[2][2]>> : r \in rows }
        links == { [source |-> g[1], target |-> g[2], value |-> strength(g[1], g[2])] :
                   g \in { h \in groups :
                             /\ strength(h[1], h[2]) >= min_link_strength
                             /\ h[1] \in valid_node_names
                             /\ h[2] \in valid_node_names } }
    IN [nodes |-> nodes, links |-> links]

\* The lower-case form of a letter: the upper-case letters of the model's
\* strings.  LIKE compares ASCII letters without regard to case, and
\* str.lower() folds them.
Fold(ch) == IF ch = "F" THEN "f" ELSE ch

\* str.strip(): s without its leading and trailing blanks.
RECURSIVE strip(_)
strip(s) ==
    IF Len(s) > 0 /\ SubSeq(s, 1, 1) = " " THEN strip(SubSeq(s, 2, Len(s)))
    ELSE IF Len(s) > 0 /\ SubSeq(s, Len(s), Len(s)) = " "
    THEN strip(SubSeq(s, 1, Len(s) - 1))
    ELSE s

\* str.lower(): a string without upper-case letters is its own lower-case
\* form; otherwise letter by letter.
RECURSIVE lower(_)
lower(s) ==
    IF \A i \in 1..Len(s) : Fold(SubSeq(s, i, i)) = SubSeq(s, i, i) THEN s
    ELSE Fold(SubSeq(s, 1, 1)) \o lower(SubSeq(s, 2, Len(s)))

\* str.split(','): the pieces of s between its commas.
RECURSIVE split(_)
split(s) ==
    IF \E i \in 1..Len(s) : SubSeq(s, i, i) = ","
    THEN LET i == CHOOSE i \in 1..Len(s) :
                     /\ SubSeq(s, i, i) = ","
                     /\ \A j \in 1..(i - 1) : SubSeq(s, j, j) # ","
         IN {SubSeq(s, 1, i - 1)} \cup split(SubSeq(s, i + 1, Len(s)))
    ELSE {s}

\* obj['tags']: GROUP_CONCAT(t.name) joins the object's tag names with ','
\* and the result is split on ',' when it is not empty (lines 247-250 and
\* 319-322); the pieces, as a set.
TagList(d, i) ==
    IF TagsOf(d, i) \subseteq {""} THEN {}
    ELSE UNION { split(t) : t \in TagsOf(d, i) }

\* One row as get_data_objects returns it: dict(row) plus id and the tag list.
ObjOf(d, i) == [id |-> i, row |-> d.data_objects[i], tags |-> TagList(d, i)]

\* None, in the shape of a row.
NoObj == [id |-> NULL, row |-> <<>>, tags |-> {}]

\* get_data_object_by_id(object_id), lines 302-324.
get_data_object_by_id(d, object_id) ==
    IF object_id \in Ids(d) THEN ObjOf(d, object_id) ELSE NoObj


\* t.name LIKE '%pattern%' on the strings of the model (no '%' in a
\* pattern): somewhere in the name every character of the pattern matches,
\* the character '_' of the pattern matching any one character.
Like(name, pattern) ==
    \E i \in 1..(Len(name) - Len(pattern) + 1) :
        \A k \in 1..Len(pattern) :
            \/ SubSeq(pattern, k, k) = "_"
            \/ Fold(SubSeq(name, i + k - 1, i + k - 1)) = Fold(SubSeq(pattern, k, k))

\* CASE WHEN t.name LIKE ? THEN 'pattern_0' WHEN ... END (lines 209-214): the
\* first pattern of the list the tag name matches, 0 standing for the NULL
\* of a name that matches none.
FirstPattern(name, tags) ==
    IF \E k \in 1..Len(tags) : Like(name, tags[k])
    THEN CHOOSE k \in 1..Len(tags) :
            /\ Like(name, tags[k])
            /\ \A j \in 1..(k - 1) : ~Like(name, tags[j])
    ELSE 0

\* The subquery of lines 216-224: the objects, among those with an
\* association, whose tag names yield as many distinct non-NULL CASE values
\* as there are patterns.
TagFilter(d, tags) ==
    { i \in Ids(d) :
        /\ TagsOf(d, i) # {}
        /\ Cardinality({ FirstPattern(t, tags) : t \in TagsOf(d, i) } \ {0})
               = Len(tags) }

\* A filter argument that is not given: None and '' for the strings, the
\* empty pair for a MIME type, <<>> for the tag patterns.
NoType == <<>>

\* The conditions on the columns both queries build alike (lines 180-188 and
\* 266-274): do.status = ?, do.type = ?, do.name LIKE '%name_like%'.
Conditions(d, i, status, file_type, name_like) ==
    /\ status # NULL => d.data_objects[i].status = status
    /\ file_type # NoType => d.data_objects[i].type = file_type
    /\ name_like # "" =>
          Like(NameStr(d.data_objects[i].name), name_like)

\* ORDER BY do.created_at DESC LIMIT n over the rows `match` (line 238): the
\* sequences of n distinct ids, latest created_at first, no row left out
\* being later than a row returned.  Every row with the latest created_at
\* may come first.
RECURSIVE NewestFirst(_, _, _)
NewestFirst(d, match, n) ==
    IF n = 0 THEN {<<>>}
    ELSE LET latest == { i \in match : \A k \in match :
                           d.data_objects[i].created_at >= d.data_objects[k].created_at }
         IN UNION { { <<i>> \o s : s \in NewestFirst(d, match \ {i}, n - 1) } :
                    i \in latest }

\* get_data_objects(status, file_type, tags, name_like, limit): the ids that
\* pass the filters given, ORDER BY created_at DESC LIMIT limit OFFSET 0.
\* SQLite leaves the order of equal created_at open, so this is the set of
\* the sequences the query may return.
get_data_objects(d, status, file_type, name_like, tags, limit) ==
    LET match == { i \in Ids(d) :
                     /\ Conditions(d, i, status, file_type, name_like)
                     /\ tags # <<>> => i \in TagFilter(d, tags) }
        n == Min(limit, Cardinality(match))
    IN NewestFirst(d, match, n)

\* The subquery of get_data_objects_count (lines 279-287): WHERE t.name LIKE ?
\* OR ... keeps the tag names that match some pattern, and HAVING
\* COUNT(DISTINCT t.name) = ? keeps the objects that have as many of them as
\* there are patterns.
CountTagFilter(d, tags) ==
    { i \in Ids(d) :
        Cardinality({ t \in TagsOf(d, i) :
                        \E k \in 1..Len(tags) : Like(t, tags[k]) }) = Len(tags) }

\* get_data_objects_count(status, file_type, tags, name_like): SELECT
\* COUNT(DISTINCT do.id) under the conditions given.
get_data_objects_count(d, status, file_type, name_like, tags) ==
    Cardinality({ i \in Ids(d) :
                    /\ Conditions(d, i, status, file_type, name_like)
                    /\ tags # <<>> => i \in CountTagFilter(d, tags) })


----------------------------------------------------------------------------
(* Types, names and blob contents *)

TEXT_PLAIN == <<"text", "plain">>
IMAGE_PNG == <<"image", "png">>
APPLICATION_JSON == <<"application", "json">>
JSON_CONTAINER_TYPE == <<"application", "json_container">>
JSON_ITEM_TYPE == <<"application", "json_item">>
OCTET_STREAM == <<"application", "octet-stream">>

\* A blob or a dropped file: what the pipeline reads from its bytes.
\*   kind   "text" | "image" | "json" | "garbage" (text that is not JSON)
\*          | "undecodable" (bytes that are not UTF-8) | "dir" (a directory)
\*   json   the parsed document for kind "json", see JArray / JObject
\*   size   os.path.getsize;  chars  len of the decoded text
\*   pixels width * height as PIL reports it
\*   replacement  whether the decoded text holds U+FFFD
\*   entries  for a directory, its files: name -> content
Content(kind, json, size, chars, pixels) ==
    [kind |-> kind, json |-> json, size |-> size, chars |-> chars,
     pixels |-> pixels, replacement |-> FALSE, entries |-> <<>>]

\* JSON documents: an array of documents, or an object with `keys` keys.
JObject(keys) == [t |-> "object", keys |-> keys, items |-> <<>>]
JArray(items) == [t |-> "array", keys |-> 0, items |-> items]
NoJson == [t |-> "none", keys |-> 0, items |-> <<>>]

TextContent == Content("text", NoJson, 120, 120, 0)
ImageContent == Content("image", NoJson, 20000, 0, 250000)
GarbageContent == Content("garbage", NoJson, 14, 14, 0)
JsonContent(doc) == Content("json", doc, 40, 40, 0)
UndecodableContent == Content("undecodable", NoJson, 16, 0, 0)
DirContent(entries) == [Content("dir", NoJson, 0, 0, 0) EXCEPT !.entries = entries]



----------------------------------------------------------------------------
(* data_processor.py: pure helpers *)

LLM_QUALITY_WEIGHT == 650
SIMPLE_QUALITY_WEIGHT == 350
BATCH_LIMIT == 15
DEFAULT_LIMIT == 100

Clamp(lo, hi, x) == Max(lo, Min(hi, x))

\* Words that str.isdigit() accepts, among the words the model's names use.
DigitWords == {"0", "1", "2", "3", "2024", "12345"}
YearWords == {"2024"}

\* extract_tags_from_filename: the extension, and the words of the stem that
\* are longer than two characters or are a plausible four-digit year.
extract_tags_from_filename(name) ==
    (IF name.ext = "" THEN {} ELSE {name.ext})
    \cup { w \in Range(name.stem) :
             IF w \in DigitWords THEN w \in YearWords ELSE Len(w) > 2 }

\* t.lower().strip() (line 290).
LowerStrip(t) == strip(lower(t))

\* What _call_qwen_chat_completion hands back: NULL when the call failed (or
\* answered nothing), else the text of the answer.
LLM_SCORE_ANSWERS == {NULL, "good", "90", "250"}

\* The answers of one entry's two calls (tagging, scoring) in the Classifier
\* runs of the model: the service down, up, up with a score it cannot use,
\* and up with a number above 100.
LLM_ANSWERS ==
    {<<NULL, NULL>>, <<"Finance, report ,", "90">>, <<"Finance, report ,", "good">>,
     <<"unclassified, report", "250">>}

\* A tagging function that returns the split answer and has no failure
\* marker.
qwen_classify_without_marker(answer, failure_tag) ==
    IF answer = NULL THEN {} ELSE { strip(t) : t \in split(answer) }

\* [t.strip() for t in tags_str.split(',')] (lines 97, 107, 119).
SplitTags(answer) == IF answer = NULL THEN {} ELSE { strip(t) : t \in split(answer) }

\* qwen_classify_text / _json / _image: the split answer, or the failure marker.
qwen_classify(answer, failure_tag) ==
    IF answer = NULL THEN {failure_tag} ELSE SplitTags(answer)

\* re.search(r'\b(\d+)\b', score_str): the whole number the answer holds, as
\* a set (empty when there is none).
WholeNumbers(answer) == { k \in 0..300 : NatToStr(k) = answer }

\* _qwen_score_content / qwen_score_image_quality after the call, for every
\* answer of the model.
ScoreOfAnswer ==
    [answer \in LLM_SCORE_ANSWERS |->
        IF answer = NULL \/ WholeNumbers(answer) = {} THEN 500
        ELSE Clamp(0, 1000, (CHOOSE k \in WholeNumbers(answer) : TRUE) * 10)]

\* A scoring function that divides the number by 100 and leaves it as it is.
qwen_score_unclamped(answer) ==
    IF answer = NULL \/ WholeNumbers(answer) = {} THEN 500
    ELSE (CHOOSE k \in WholeNumbers(answer) : TRUE) * 10

qwen_score(answer) == ScoreOfAnswer[answer]

simple_score_text_quality(chars, file_size_bytes, replacement) ==
    IF chars = 0 THEN 50
    ELSE Clamp(50, 1000,
           300 + (IF chars > 2000 THEN 400 ELSE IF chars > 100 THEN 150 ELSE 0)
               + (IF file_size_bytes > 10240 THEN 100 ELSE 0)
               - (IF replacement THEN 300 ELSE 0))

simple_score_image_quality(pixels, file_size_bytes) ==
    Clamp(50, 1000,
      200 + (IF pixels >= 1000000 THEN 300 ELSE IF pixels >= 250000 THEN 150 ELSE 0)
          + (IF file_size_bytes >= 1000000 THEN 300
             ELSE IF file_size_bytes < 10000 THEN -200 ELSE 0))

RichExtensions == {"pdf", "docx", "xlsx", "zip", "csv"}

simple_score_other_quality(obj_type, file_size_bytes, name) ==
    Clamp(50, 1000,
      200 + (IF file_size_bytes > 1000000 THEN 200 ELSE 0)
          + (IF name.ext \in RichExtensions THEN 200 ELSE 0)
          + (IF obj_type = JSON_CONTAINER_TYPE /\ file_size_bytes > 100000
             THEN 250 ELSE 0))

\* round(x, 3) of num / 1000 thousandths, ties to even.
Round3(num) ==
    LET q == num \div 1000
        r == num % 1000
    IN IF r > 500 \/ (r = 500 /\ q % 2 = 1) THEN q + 1 ELSE q

\* Line 294: the weighted score, rounded to three decimals.
final_score(score_llm, score_simple) ==
    Round3(score_llm * LLM_QUALITY_WEIGHT + score_simple * SIMPLE_QUALITY_WEIGHT)

\* Lines 289-292: the merged, normalised, de-duplicated tag list.
updated_tags(tags_final, tags_filename, tags_llm) ==
    LET all_tags == { LowerStrip(t) :
                        t \in { u \in tags_final \cup tags_filename \cup tags_llm :
                                  u # "" /\ LowerStrip(u) # "" } }
    IN IF all_tags = {} THEN {"unclassified"} ELSE all_tags

\* Which except clause of process_data_objects takes an exception raised in
\* the try block.  FileNotFoundError is matched first.  For anything else
\* Python evaluates the next clause's expression, json.JSONDecodeError; the
\* module never imports json (lines 1-11), so that evaluation raises NameError
\* and the exception leaves process_data_objects.
ExceptClause(exception) ==
    IF exception = "FileNotFoundError" THEN "handle_file_not_found" ELSE "raised"


----------------------------------------------------------------------------
(* data_ingestor.py: naming of stored blobs, and the rows it records *)

FILE_STORAGE_DIR == "data_files"

\* generate_stored_filename joined to the storage directory (lines 47-55 and
\* 146 / 180): stem, optional suffix, timestamp, extension.
generate_stored_filename(name, suffix_part, now) ==
    FILE_STORAGE_DIR \o "/" \o Join(name.stem)
        \o (IF suffix_part = NULL THEN "" ELSE "_" \o suffix_part)
        \o "_" \o NatToStr(now)
        \o (IF name.ext = "" THEN "" ELSE "." \o name.ext)

\* The tags the Ingestor passes to insert_data_object, by the type it records.
IngestTags(file_type, valid_json) ==
    IF file_type = JSON_CONTAINER_TYPE THEN {"json_container", "unclassified_list"}
    ELSE IF file_type = JSON_ITEM_TYPE THEN {"json_item", "unclassified"}
    ELSE IF file_type = APPLICATION_JSON THEN {"json_object", "unclassified"}
    ELSE IF ~valid_json THEN {"invalid_json", "unclassified"}
    ELSE {"unclassified"}

\* The display name of element `index` of the array in file `name` (line 176).
item_display_name(name, index) ==
    Name(name.stem \o <<"item", NatToStr(index)>>, "json")

----------------------------------------------------------------------------
(* The catalog the Classifier starts from: NumEntries entries as the       *)
(* Ingestor records them, one second apart, each with its blob stored.     *)

SeedKinds == {"text", "image", "json", "json_container", "json_item", "other"}

SeedName(kind) ==
    CASE kind = "text" -> Name(<<"notes">>, "txt")
      [] kind = "image" -> Name(<<"photo", "2024">>, "png")
      [] kind = "json" -> Name(<<"config">>, "json")
      [] kind = "json_container" -> Name(<<"report">>, "json")
      [] kind = "json_item" -> item_display_name(Name(<<"report">>, "json"), 0)
      [] OTHER -> Name(<<"dump">>, "bin")

SeedType(kind) ==
    CASE kind = "text" -> TEXT_PLAIN
      [] kind = "image" -> IMAGE_PNG
      [] kind = "json" -> APPLICATION_JSON
      [] kind = "json_container" -> JSON_CONTAINER_TYPE
      [] kind = "json_item" -> JSON_ITEM_TYPE
      [] OTHER -> OCTET_STREAM

SeedContent(kind) ==
    CASE kind = "text" -> TextContent
      [] kind = "image" -> ImageContent
      [] kind = "json" -> JsonContent(JObject(2))
      [] kind = "json_container" -> JsonContent(JArray(<<JObject(1)>>))
      [] kind = "json_item" -> JsonContent(JObject(1))
      [] OTHER -> GarbageContent

\* The stored path of seed k: an item is written under its container's name
\* with the suffix item_<index>.
SeedPath(kind, k) ==
    IF kind = "json_item"
    THEN generate_stored_filename(Name(<<"report">>, "json"), "item_0", k)
    ELSE generate_stored_filename(SeedName(kind), NULL, k)

\* A json_item is the element of the container recorded just before it.
SeedKindsOk(kinds) ==
    \A k \in DOMAIN kinds :
        kinds[k] = "json_item" => (k > 1 /\ kinds[k - 1] = "json_container")

SeedRow(kinds, k) ==
    NewRow(SeedName(kinds[k]), SeedType(kinds[k]), SeedPath(kinds[k], k),
           "summary",
           IF kinds[k] = "json_item" THEN Uuid(k - 1) ELSE NULL,
           IF kinds[k] = "json_item" THEN NatToStr(0) ELSE NULL,
           k)

RECURSIVE SeedDb(_, _)
SeedDb(kinds, k) ==
    IF k = 0 THEN EmptyDb
    ELSE insert_data_object(SeedDb(kinds, k - 1), Uuid(k), SeedRow(kinds, k),
                            IngestTags(SeedType(kinds[k]), TRUE)).db

SeedStorage(kinds) ==
    LET paths == { SeedPath(kinds[k], k) : k \in DOMAIN kinds }
    IN [p \in paths |->
          SeedContent(kinds[CHOOSE k \in DOMAIN kinds : SeedPath(kinds[k], k) = p])]


----------------------------------------------------------------------------
(* data_processor.py: process_data_objects and run_processor_service, one  *)
(* action per access to the catalog or the blob directory.                 *)
(*                                                                         *)
(* proc[r].pc                                                              *)
(*   "start"     run_processor_service has called init_db                  *)
(*   "claim"     line 239, about to mark the head of the batch processing  *)
(*   "stat"      lines 248-254          "analyse"   lines 256-287          *)
(*   "persist"   line 296                                                  *)
(*   "handle_file_not_found"  line 304                                     *)
(*   "returned" / "raised"    process_data_objects has ended; the service  *)
(*               loop sleeps and calls it again                            *)
(*   "crashed"   the process died; its locals are kept for inspection only *)
(*   "off"       this replica is not deployed                              *)
(* proc[r].marked is the set of ids this run has marked processing.        *)
(* proc[r].answers is what the external model answered, or would have, to  *)
(* the tagging and the scoring call for the entry analysed.                *)

ProcStart ==
    [pc |-> "start", batch |-> <<>>, marked |-> {}, tags_final |-> {},
     tags_filename |-> {}, tags_llm |-> {}, score_llm |-> 500,
     score_simple |-> 500, file_size |-> 0, answers |-> <<NULL, NULL>>]

Obj(r) == Head(proc[r].batch)

Locals(r, pc) ==
    [ProcStart EXCEPT !.pc = pc, !.batch = proc[r].batch, !.marked = proc[r].marked]

\* `continue` / the end of the loop body: the next object, or return.
NextObject(r) ==
    LET rest == Tail(proc[r].batch)
    IN [ProcStart EXCEPT !.pc = IF rest = <<>> THEN "returned" ELSE "claim",
                         !.batch = rest, !.marked = proc[r].marked]

\* An exception raised in the try block at lines 244-297.
Raise(r, exception) ==
    [proc[r] EXCEPT !.pc = ExceptClause(exception)]

BlobExists(path) == path \in DOMAIN storage

\* Fetch in a service whose loop ends with the first exception that leaves
\* process_data_objects.
Fetch_without_service_loop(r) ==
    /\ proc[r].pc \in {"start", "returned"}
    /\ \E s \in get_data_objects(db, "new", NoType, "", <<>>, BATCH_LIMIT) :
          proc' = [proc EXCEPT ![r] =
                     IF s = <<>> THEN [ProcStart EXCEPT !.pc = "returned"]
                     ELSE [ProcStart EXCEPT
                             !.pc = "claim",
                             !.batch = [i \in 1..Len(s) |-> ObjOf(db, s[i])]]]
    /\ UNCHANGED <<db, storage, input_dir, clock, uuids, ing, api, faults, conn>>

\* Lines 229-234: fetch the batch of new entries; return when there is none.
Fetch(r) ==
    /\ proc[r].pc \in {"start", "returned", "raised"}
    /\ \E s \in get_data_objects(db, "new", NoType, "", <<>>, BATCH_LIMIT) :
          proc' = [proc EXCEPT ![r] =
                     IF s = <<>> THEN [ProcStart EXCEPT !.pc = "returned"]
                     ELSE [ProcStart EXCEPT
                             !.pc = "claim",
                             !.batch = [i \in 1..Len(s) |-> ObjOf(db, s[i])]]]
    /\ UNCHANGED <<db, storage, input_dir, clock, uuids, ing, api, faults, conn>>

\* Lines 237-242: mark the object processing, whatever its status is by now,
\* and start tags_final from the tags fetched with it.
Claim(r) ==
    /\ proc[r].pc = "claim"
    /\ db' = update_data_object(db, Obj(r).id, [status |-> "processing"], NoTags,
                                 clock).db
    /\ proc' = [proc EXCEPT ![r] =
                  [Locals(r, "stat") EXCEPT
                     !.marked = @ \cup {Obj(r).id},
                     !.tags_final = Obj(r).tags \ {"unclassified"}]]
    /\ UNCHANGED <<storage, input_dir, clock, uuids, ing, api, faults, conn>>

\* Lines 248-254: os.path.exists, os.path.getsize, the filename tags.  Both
\* calls raise FileNotFoundError for a blob that is gone, and a stored path is
\* never written a second time, so the two reads are one step: the blob as
\* getsize finds it.
Stat(r) ==
    /\ proc[r].pc = "stat"
    /\ LET loc == Obj(r).row.content_location
       IN proc' = [proc EXCEPT ![r] =
                  IF BlobExists(loc)
                  THEN [@ EXCEPT
                          !.pc = "analyse",
                          !.file_size = storage[loc].size,
                          !.tags_filename = extract_tags_from_filename(Obj(r).row.name)]
                  ELSE Raise(r, "FileNotFoundError")]
    /\ UNCHANGED <<db, storage, input_dir, clock, uuids, ing, api, faults, conn>>

\* Lines 256-287: the dispatch on the type.  tag_answer and score_answer are
\* what the external model answers.
Analysed(r, tag_answer, score_answer) ==
    LET o == Obj(r)
        loc == o.row.content_location
        obj_type == o.row.type
        me == proc[r]
    IN  IF obj_type[1] = "text" THEN
            \* open() raises FileNotFoundError when the blob has gone.
            IF ~BlobExists(loc) THEN Raise(r, "FileNotFoundError")
            ELSE [me EXCEPT
                    !.pc = "persist",
                    !.tags_llm = qwen_classify(tag_answer, "text_llm_failed"),
                    !.score_llm = qwen_score(score_answer),
                    !.score_simple = simple_score_text_quality(
                        storage[loc].chars, me.file_size, storage[loc].replacement)]
        ELSE IF obj_type[1] = "image" THEN
            \* get_image_base64_uri and simple_score_image_quality catch every
            \* exception of their own open(): a blob that has gone is no error.
            IF ~BlobExists(loc)
            THEN [me EXCEPT
                    !.pc = "persist",
                    !.tags_llm = {"image_base64_error"},
                    !.score_llm = 100,
                    !.score_simple = simple_score_image_quality(0, me.file_size)]
            ELSE [me EXCEPT
                    !.pc = "persist",
                    !.tags_llm = qwen_classify(tag_answer, "image_llm_failed"),
                    !.score_llm = qwen_score(score_answer),
                    !.score_simple = simple_score_image_quality(
                        storage[loc].pixels, me.file_size)]
        ELSE IF obj_type = APPLICATION_JSON \/ obj_type = JSON_ITEM_TYPE THEN
            \* open() raises FileNotFoundError; otherwise json.load is a
            \* NameError, json not being imported.
            IF ~BlobExists(loc) THEN Raise(r, "FileNotFoundError")
            ELSE Raise(r, "NameError")
        ELSE IF obj_type = JSON_CONTAINER_TYPE THEN
            [me EXCEPT
               !.pc = "persist",
               !.tags_llm = {"json_container", "list_data"},
               !.score_llm = qwen_score(score_answer),
               !.score_simple = simple_score_other_quality(
                   obj_type, me.file_size, o.row.name),
               !.tags_final = @ \cup {"json_container"}]
        ELSE
            [me EXCEPT
               !.pc = "persist",
               !.tags_llm = qwen_classify(tag_answer, "text_llm_failed"),
               !.score_llm = qwen_score(score_answer),
               !.score_simple = simple_score_other_quality(
                   obj_type, me.file_size, o.row.name),
               !.tags_filename = @ \cup {obj_type[2]}]

Analyse(r) ==
    /\ proc[r].pc = "analyse"
    /\ \E answers \in LLM_ANSWERS :
          proc' = [proc EXCEPT ![r] =
                     [Analysed(r, answers[1], answers[2]) EXCEPT !.answers = answers]]
    /\ UNCHANGED <<db, storage, input_dir, clock, uuids, ing, api, faults, conn>>

\* Lines 289-297: one update with the tags, the score and status classified.
Persist(r) ==
    /\ proc[r].pc = "persist"
    /\ \E tags \in {updated_tags(proc[r].tags_final, proc[r].tags_filename,
                                 proc[r].tags_llm)} :
          db' = update_data_object(db, Obj(r).id,
                   [quality_score |-> final_score(proc[r].score_llm,
                                                  proc[r].score_simple),
                    status |-> "classified"],
                   tags, clock).db
    /\ proc' = [proc EXCEPT ![r] = NextObject(r)]
    /\ UNCHANGED <<storage, input_dir, clock, uuids, ing, api, faults, conn>>

\* Lines 299-305: except FileNotFoundError.
HandleFileNotFound(r) ==
    /\ proc[r].pc = "handle_file_not_found"
    /\ db' = update_data_object(db, Obj(r).id, [status |-> "error"],
                proc[r].tags_final \cup {"file_not_found_error"}, clock).db
    /\ proc' = [proc EXCEPT ![r] = NextObject(r)]
    /\ UNCHANGED <<storage, input_dir, clock, uuids, ing, api, faults, conn>>

InRun(r) ==
    proc[r].pc \in {"claim", "stat", "analyse", "persist",
                    "handle_file_not_found"}

\* The Classifier process dies in the middle of a batch.
Crash(r) ==
    /\ InRun(r)
    /\ faults.crashes < MaxCrashes
    /\ faults' = [faults EXCEPT !.crashes = @ + 1]
    /\ proc' = [proc EXCEPT ![r].pc = "crashed"]
    /\ UNCHANGED <<db, storage, input_dir, clock, uuids, ing, api, conn>>

\* The service is started again: run_processor_service from its first line.
Restart(r) ==
    /\ proc[r].pc = "crashed"
    /\ proc' = [proc EXCEPT ![r] = ProcStart]
    /\ UNCHANGED <<db, storage, input_dir, clock, uuids, ing, api, faults, conn>>

----------------------------------------------------------------------------
(* data_api.py: delete_data_object_api, in its two effects *)

\* Lines 212-217: read the row, remove its blob.
ApiDeleteBlob(object_id) ==
    /\ api = {}
    /\ object_id \in Ids(db)
    /\ faults.api_deletes < MaxApiDeletes
    /\ faults' = [faults EXCEPT !.api_deletes = @ + 1]
    /\ storage' = [p \in DOMAIN storage \ {db.data_objects[object_id].content_location}
                     |-> storage[p]]
    /\ api' = {object_id}
    /\ UNCHANGED <<db, input_dir, clock, uuids, proc, ing, conn>>

\* Line 219: delete the row.
ApiDeleteRow(object_id) ==
    /\ object_id \in api
    /\ db' = delete_data_object(db, object_id).db
    /\ api' = {}
    /\ UNCHANGED <<storage, input_dir, clock, uuids, proc, ing, faults, conn>>

----------------------------------------------------------------------------
(* The Classifier replicas against a seeded catalog, with the facade        *)
(* deleting entries beside them.                                           *)

NoFaults ==
    [crashes |-> 0, api_deletes |-> 0, inserts |-> 0, removes |-> 0, writes |-> 0]

\* No caller of db_manager other than the services.
NoCalls == <<>>

\* The state after the services named in `deployed` have started.
ClassifierInit(deployed) ==
    \E kinds \in [1..NumEntries -> SeedKinds] :
        /\ SeedKindsOk(kinds)
        /\ db = SeedDb(kinds, NumEntries)
        /\ storage = SeedStorage(kinds)
        /\ input_dir = <<>>
        /\ clock = NumEntries + 1
        /\ uuids = NumEntries
        /\ proc = [r \in Replicas |->
                     IF r \in deployed THEN ProcStart
                     ELSE [ProcStart EXCEPT !.pc = "off"]]
        /\ ing = <<>>
        /\ api = {}
        /\ faults = NoFaults
        /\ conn = NoCalls

Init == ClassifierInit(Replicas)

ClassifierStep(r) ==
    \/ Fetch(r)
    \/ Claim(r)
    \/ Stat(r)
    \/ Analyse(r)
    \/ Persist(r)
    \/ HandleFileNotFound(r)

Next ==
    \/ \E r \in Replicas : Fetch(r)
    \/ \E r \in Replicas : Claim(r)
    \/ \E r \in Replicas : Stat(r)
    \/ \E r \in Replicas : Analyse(r)
    \/ \E r \in Replicas : Persist(r)
    \/ \E r \in Replicas : HandleFileNotFound(r)
    \/ \E i \in Ids(db) : ApiDeleteBlob(i)
    \/ \E i \in api : ApiDeleteRow(i)

Spec == Init /\ [][Next]_vars

----------------------------------------------------------------------------
(* One Classifier service that may crash and be started again.  The service *)
(* loop of run_processor_service never stops, and a process that died is    *)
(* started again: weak fairness of every step of the service.               *)

CrashInit == ClassifierInit({1})

CrashNext ==
    \/ Fetch(1)
    \/ Claim(1)
    \/ Stat(1)
    \/ Analyse(1)
    \/ Persist(1)
    \/ HandleFileNotFound(1)
    \/ Crash(1)
    \/ Restart(1)
    \/ \E i \in Ids(db) : ApiDeleteBlob(i)
    \/ \E i \in api : ApiDeleteRow(i)

LiveSpec ==
    CrashInit /\ [][CrashNext]_vars /\ WF_vars(ClassifierStep(1)) /\ WF_vars(Restart(1))

----------------------------------------------------------------------------
(* One Classifier service in front of a backlog larger than one batch.  The *)
(* catalog holds BATCH_LIMIT + BacklogExtra new entries, so the oldest ones *)
(* are outside the first batch that get_data_objects returns.  Most entries *)
(* are JSON objects, whose analysis ends the batch with the NameError; one  *)
(* may be a text, and the blob of one may be missing from the storage       *)
(* directory.  Fairness as in LiveSpec: the loop of run_processor_service   *)
(* goes on after a return and after an exception, and a process that died   *)
(* is started again.                                                        *)

BacklogExtra == 1    \* new entries beyond one batch of the Classifier

BacklogEntries == BATCH_LIMIT + BacklogExtra

BacklogIds == { Uuid(k) : k \in 1..BacklogEntries }

\* The oldest entry, the next oldest and the newest.
BacklogSpots == {1, 2, BacklogEntries}

BacklogInit ==
    \E text \in SUBSET BacklogSpots, gone \in SUBSET BacklogSpots :
        LET kinds == [k \in 1..BacklogEntries |->
                        IF k \in text THEN "text" ELSE "json"]
            blobs == SeedStorage(kinds)
            lost == { SeedPath(kinds[k], k) : k \in gone }
        IN  /\ Cardinality(text) <= 1
            /\ Cardinality(gone) <= 1
            /\ db = SeedDb(kinds, BacklogEntries)
            /\ storage = [p \in DOMAIN blobs \ lost |-> blobs[p]]
            /\ input_dir = <<>>
            /\ clock = BacklogEntries + 1
            /\ uuids = BacklogEntries
            /\ proc = [r \in Replicas |->
                         IF r = 1 THEN ProcStart
                         ELSE [ProcStart EXCEPT !.pc = "off"]]
            /\ ing = <<>>
            /\ api = {}
            /\ faults = NoFaults
            /\ conn = NoCalls

BacklogNext ==
    \/ Fetch(1)
    \/ Claim(1)
    \/ Stat(1)
    \/ Analyse(1)
    \/ Persist(1)
    \/ HandleFileNotFound(1)
    \/ Crash(1)
    \/ Restart(1)

BacklogSpec ==
    BacklogInit /\ [][BacklogNext]_vars /\ WF_vars(ClassifierStep(1)) /\ WF_vars(Restart(1))


----------------------------------------------------------------------------
(* data_ingestor.py: get_file_type and get_file_content_summary *)

\* get_file_type (lines 38-45), on the extensions the model's files use.
get_file_type(name) ==
    CASE name.ext = "txt" -> TEXT_PLAIN
      [] name.ext = "png" -> IMAGE_PNG
      [] name.ext = "json" -> APPLICATION_JSON
      [] OTHER -> OCTET_STREAM

Detail(t, n) == [t |-> t, n |-> n]

\* get_file_content_summary (lines 57-126) of the file at `filepath` in the
\* directory `dir`.  The summary is kept as its parts: the display name, the
\* type, the size and the type-specific part.
get_file_content_summary(dir, filepath, file_type, display) ==
    IF filepath \notin DOMAIN dir
    THEN [file |-> display, type |-> file_type, size |-> 0,
          detail |-> Detail("File Not Found Error", 0)]
    ELSE LET blob == dir[filepath]
         IN [file |-> display, type |-> file_type, size |-> blob.size,
             detail |->
               IF file_type[1] = "text"
                 THEN Detail("Snippet", Min(blob.chars, 200))
               ELSE IF file_type[1] = "image"
                 THEN IF blob.kind = "image"
                      THEN Detail("Dimensions", blob.pixels)
                      ELSE Detail("Image Details Error", 0)
               ELSE IF file_type \in {APPLICATION_JSON, JSON_ITEM_TYPE}
                 THEN IF blob.kind # "json" THEN Detail("JSON Details Error", 0)
                      ELSE IF blob.json.t = "array"
                        THEN Detail("JSON Array, Items", Len(blob.json.items))
                      ELSE Detail("JSON Object, Keys", blob.json.keys)
               ELSE IF file_type = JSON_CONTAINER_TYPE
                 THEN IF blob.kind # "json"
                      THEN Detail("Container Details Error", 0)
                      ELSE IF blob.json.t = "array"
                        THEN Detail("Contains: List of JSON items",
                                    Len(blob.json.items))
                      ELSE Detail("Contains: JSON object, top-level entries",
                                  blob.json.keys)
               ELSE Detail("", 0)]

\* os.path.isfile (line 139): the name is there and is not a directory.
isfile(dir, name) == name \in DOMAIN dir /\ dir[name].kind # "dir"

\* os.remove(path) that leaves the file where it is.
LeaveInPlace(dir, path) == dir

\* `if os.path.exists(path): os.remove(path)` on a directory.
RemoveIfExists(dir, path) == [p \in DOMAIN dir \ {path} |-> dir[p]]

\* The directory with `path` written: created, or overwritten.
Written(dir, path, content) ==
    [p \in DOMAIN dir \cup {path} |-> IF p = path THEN content ELSE dir[p]]

\* source_item_key=str(index) with the index counted from one.
source_item_key_from_one(index) == NatToStr(index + 1)

\* source_item_key=str(index), line 194.
source_item_key(index) == NatToStr(index)

\* A test of the insert's result that takes every result for an id.
RecordedWhateverReturned(data_id) == TRUE

\* `if data_id:` / `if not container_id:` (lines 167, 196, 217, 230, 246):
\* whether insert_data_object handed back an id.
Recorded(data_id) == data_id # NULL

----------------------------------------------------------------------------
(* data_ingestor.py: ingest_new_data and run_ingestor_service, one action   *)
(* per access to the input directory, the blob directory or the catalog.   *)
(*                                                                         *)
(* ing[g].pc                                                               *)
(*   "idle"          run_ingestor_service, between two scans               *)
(*   "next_file"     line 137, the head of `files` is the next file name   *)
(*   "copy"          line 149         "parse"         lines 153-156        *)
(*   "insert"        line 159, 213, 226 or 242, according to `path`        *)
(*   "remove_blob"   line 169, 222, 235 or 251                             *)
(*   "item_write"    lines 175-184    "item_insert"   lines 186-196        *)
(*   "remove_item"   line 199 or 202                                       *)
(*   "remove_source" line 206, 218, 231 or 247                             *)
(*   "except_json"   line 236         "except_outer"  line 253             *)
(*   "aborted"       an exception left ingest_new_data; nothing catches it *)
(*                   in run_ingestor_service, the process ends             *)
(*   "crashed"       the process died  "off"  not deployed                 *)
(* ing[g].path is the branch taken for the current file: "container",      *)
(* "single", "invalid" (inside except json.JSONDecodeError) or "plain".    *)

Ingestors == {1, 2}

IngStart ==
    [pc |-> "idle", scans |-> 0, files |-> <<>>, file_type |-> OCTET_STREAM,
     target |-> NULL, path |-> NULL, json_content |-> NoJson, data_id |-> NULL,
     index |-> 0, item_target |-> NULL, items_ingested_count |-> 0,
     exception |-> NULL]

original_filename(g) == Head(ing[g].files)

\* The end of the loop body, or `continue`: on to the next name of the listing.
Continue(g) ==
    [IngStart EXCEPT !.pc = "next_file", !.scans = ing[g].scans,
                     !.files = Tail(ing[g].files)]

\* datetime.now() as generate_stored_filename reads it: the clock may or may
\* not have moved since it was last read.
Now == IF clock < MaxClock THEN {clock, clock + 1} ELSE {clock}

\* The clause that takes an exception raised at the insert or at the removal
\* of the source file: `except Exception as e_json_proc` (line 236) inside the
\* inner try, the outer `except Exception` (line 253) from the non-JSON branch
\* and from inside the `except json.JSONDecodeError` handler.
Handler(path) ==
    IF path \in {"container", "single"} THEN "except_json" ELSE "except_outer"

\* run_ingestor_service, lines 269-271, and lines 132-137: after the sleep,
\* list the input directory, in whatever order os.listdir gives.
Scan(g) ==
    /\ ing[g].pc = "idle"
    /\ ing[g].scans < MaxScans
    /\ \E order \in [1..Cardinality(DOMAIN input_dir) -> DOMAIN input_dir] :
          /\ \A i, j \in DOMAIN order : i # j => order[i] # order[j]
          /\ ing' = [ing EXCEPT ![g] =
                       [IngStart EXCEPT !.pc = "next_file",
                                        !.scans = ing[g].scans + 1,
                                        !.files = order]]
    /\ clock' = clock + 1
    /\ UNCHANGED <<db, storage, input_dir, uuids, proc, api, faults, conn>>

\* Lines 137-146: return at the end of the listing; skip a name that is not
\* a regular file (any more); else fix the type and the stored path.
NextFile(g) ==
    /\ ing[g].pc = "next_file"
    /\ IF ing[g].files = <<>>
       THEN /\ ing' = [ing EXCEPT ![g] = [IngStart EXCEPT !.scans = ing[g].scans]]
            /\ clock' = clock
       ELSE IF ~isfile(input_dir, original_filename(g))
       THEN /\ ing' = [ing EXCEPT ![g] = Continue(g)]
            /\ clock' = clock
       ELSE \E now \in Now :
            /\ clock' = now
            /\ ing' = [ing EXCEPT ![g] =
                         [@ EXCEPT
                            !.pc = "copy",
                            !.file_type = get_file_type(original_filename(g)),
                            !.target = generate_stored_filename(
                                           original_filename(g), NULL, now)]]
    /\ UNCHANGED <<db, storage, input_dir, uuids, proc, api, faults, conn>>

\* Line 149: shutil.copy.  A source that is gone raises FileNotFoundError in
\* the outer try.
Copy(g) ==
    /\ ing[g].pc = "copy"
    /\ IF original_filename(g) \in DOMAIN input_dir
       THEN /\ storage' = Written(storage, ing[g].target,
                                  input_dir[original_filename(g)])
            /\ ing' = [ing EXCEPT ![g] =
                         IF ing[g].file_type = APPLICATION_JSON
                         THEN [@ EXCEPT !.pc = "parse"]
                         ELSE [@ EXCEPT !.pc = "insert", !.path = "plain"]]
       ELSE /\ storage' = storage
            /\ ing' = [ing EXCEPT ![g] =
                         [@ EXCEPT !.pc = "except_outer",
                                   !.exception = "FileNotFoundError"]]
    /\ UNCHANGED <<db, input_dir, clock, uuids, proc, api, faults, conn>>

\* What a write that fails may leave at `path`: nothing, or the bytes written
\* before the failure.
PartlyWritten(dir, path, content) ==
    {dir, Written(dir, path, [content EXCEPT !.kind = "garbage"])}

\* The same shutil.copy failing with an OSError (the disk is full, the target
\* directory refuses the write): the outer try takes it.
CopyFails(g) ==
    /\ ing[g].pc = "copy"
    /\ original_filename(g) \in DOMAIN input_dir
    /\ faults.writes < MaxWriteFaults
    /\ faults' = [faults EXCEPT !.writes = @ + 1]
    /\ storage' \in PartlyWritten(storage, ing[g].target,
                                  input_dir[original_filename(g)])
    /\ ing' = [ing EXCEPT ![g] =
                 [@ EXCEPT !.pc = "except_outer", !.exception = "OSError"]]
    /\ UNCHANGED <<db, input_dir, clock, uuids, proc, api, conn>>

\* Lines 153-156, 211 and 224: json.load of the copy, and the branch it takes.
\* The file is opened with encoding='utf-8' and strict errors, so bytes that
\* are not UTF-8 raise UnicodeDecodeError, which is no json.JSONDecodeError.
Parse(g) ==
    /\ ing[g].pc = "parse"
    /\ ing' = [ing EXCEPT ![g] =
          IF ing[g].target \notin DOMAIN storage
          THEN [@ EXCEPT !.pc = "except_json", !.exception = "FileNotFoundError"]
          ELSE LET blob == storage[ing[g].target]
               IN IF blob.kind = "undecodable"
                  THEN [@ EXCEPT !.pc = "except_json",
                                 !.exception = "UnicodeDecodeError"]
                  ELSE IF blob.kind # "json"
                  THEN [@ EXCEPT !.pc = "insert", !.path = "invalid"]
                  ELSE IF blob.json.t = "array" /\ blob.json.items # <<>>
                  THEN [@ EXCEPT !.pc = "insert", !.path = "container",
                                 !.json_content = blob.json]
                  ELSE [@ EXCEPT !.pc = "insert", !.path = "single",
                                 !.json_content = blob.json]]
    /\ UNCHANGED <<db, storage, input_dir, clock, uuids, proc, api, faults, conn>>

\* The arguments of the insert_data_object call of each branch (lines 158-165,
\* 212-216, 225-229, 241-245).
InsertType(g) ==
    CASE ing[g].path = "container" -> JSON_CONTAINER_TYPE
      [] ing[g].path = "invalid" -> OCTET_STREAM
      [] OTHER -> ing[g].file_type

InsertDisplay(g) ==
    IF ing[g].path = "invalid"
    THEN NameStr(original_filename(g)) \o " (invalid JSON)"
    ELSE NameStr(original_filename(g))

InsertRow(g) ==
    NewRow(original_filename(g), InsertType(g), ing[g].target,
           get_file_content_summary(storage, ing[g].target, InsertType(g),
                                    InsertDisplay(g)),
           NULL, NULL, clock)

\* Where a branch goes once insert_data_object has returned data_id.
AfterInsert(g, data_id) ==
    IF ~Recorded(data_id) THEN "remove_blob"
    ELSE IF ing[g].path = "container" THEN "item_write"
    ELSE "remove_source"

\* Lines 159, 213, 226, 242: insert_data_object runs its transaction.
Insert(g) ==
    /\ ing[g].pc = "insert"
    /\ LET res == insert_data_object(db, Uuid(uuids + 1), InsertRow(g),
                      IngestTags(InsertType(g), ing[g].path # "invalid"))
       IN /\ db' = res.db
          /\ ing' = [ing EXCEPT ![g] =
                       [@ EXCEPT !.pc = AfterInsert(g, res.ret),
                                 !.data_id = res.ret]]
    /\ uuids' = uuids + 1
    /\ UNCHANGED <<storage, input_dir, clock, proc, api, faults, conn>>

\* The same call when its transaction fails (sqlite3.Error: the database is
\* locked, the disk is full): it rolls back and returns None.
InsertFails(g) ==
    /\ ing[g].pc = "insert"
    /\ faults.inserts < MaxInsertFaults
    /\ faults' = [faults EXCEPT !.inserts = @ + 1]
    /\ ing' = [ing EXCEPT ![g] =
                 [@ EXCEPT !.pc = AfterInsert(g, NULL), !.data_id = NULL]]
    /\ uuids' = uuids + 1
    /\ UNCHANGED <<db, storage, input_dir, clock, proc, api, conn>>

\* The same call when the database cannot be reached: get_db_connection
\* (line 127) is outside the try of insert_data_object, so the
\* sqlite3.OperationalError reaches the caller.
InsertRaises(g) ==
    /\ ing[g].pc = "insert"
    /\ faults.inserts < MaxInsertFaults
    /\ faults' = [faults EXCEPT !.inserts = @ + 1]
    /\ ing' = [ing EXCEPT ![g] =
                 [@ EXCEPT !.pc = Handler(ing[g].path),
                           !.exception = "OperationalError"]]
    /\ UNCHANGED <<db, storage, input_dir, clock, uuids, proc, api, conn>>

\* Lines 169, 222, 235, 251: the insert returned None, remove the copy.
RemoveBlob(g) ==
    /\ ing[g].pc = "remove_blob"
    /\ storage' = RemoveIfExists(storage, ing[g].target)
    /\ ing' = [ing EXCEPT ![g] = Continue(g)]
    /\ UNCHANGED <<db, input_dir, clock, uuids, proc, api, faults, conn>>

\* Lines 175-184: the next element of the array is written as a blob of its
\* own; after the last one, lines 204-206 go on to remove the source file.
ItemWrite(g) ==
    /\ ing[g].pc = "item_write"
    /\ IF ing[g].index = Len(ing[g].json_content.items)
       THEN /\ ing' = [ing EXCEPT ![g] =
                         IF ing[g].items_ingested_count > 0 \/ Recorded(ing[g].data_id)
                         THEN [@ EXCEPT !.pc = "remove_source"]
                         ELSE Continue(g)]
            /\ UNCHANGED <<storage, clock, conn>>
       ELSE \E now \in Now :
            LET item_target ==
                    generate_stored_filename(original_filename(g),
                        "item_" \o NatToStr(ing[g].index), now)
            IN /\ clock' = now
               /\ storage' = Written(storage, item_target,
                                 JsonContent(ing[g].json_content.items[ing[g].index + 1]))
               /\ ing' = [ing EXCEPT ![g].pc = "item_insert",
                                     ![g].item_target = item_target]
    /\ UNCHANGED <<db, input_dir, uuids, proc, api, faults, conn>>

\* Lines 183-184 failing with an OSError: the except clause of line 200
\* removes what was written of the element's file.
ItemWriteFails(g) ==
    /\ ing[g].pc = "item_write"
    /\ ing[g].index < Len(ing[g].json_content.items)
    /\ faults.writes < MaxWriteFaults
    /\ faults' = [faults EXCEPT !.writes = @ + 1]
    /\ \E now \in Now :
          LET item_target ==
                  generate_stored_filename(original_filename(g),
                      "item_" \o NatToStr(ing[g].index), now)
          IN /\ clock' = now
             /\ storage' \in PartlyWritten(storage, item_target,
                     JsonContent(ing[g].json_content.items[ing[g].index + 1]))
             /\ ing' = [ing EXCEPT ![g].pc = "remove_item",
                                   ![g].item_target = item_target]
    /\ UNCHANGED <<db, input_dir, uuids, proc, api, conn>>

ItemRow(g) ==
    NewRow(item_display_name(original_filename(g), ing[g].index), JSON_ITEM_TYPE,
           ing[g].item_target,
           get_file_content_summary(storage, ing[g].item_target, JSON_ITEM_TYPE,
               NameStr(item_display_name(original_filename(g), ing[g].index))),
           ing[g].data_id, source_item_key(ing[g].index), clock)

\* Lines 186-198: the insert of the element's entry.
ItemInsert(g) ==
    /\ ing[g].pc = "item_insert"
    /\ LET res == insert_data_object(db, Uuid(uuids + 1), ItemRow(g),
                                     IngestTags(JSON_ITEM_TYPE, TRUE))
       IN /\ db' = res.db
          /\ ing' = [ing EXCEPT ![g] =
                       IF Recorded(res.ret)
                       THEN [@ EXCEPT !.pc = "item_write", !.index = @ + 1,
                                      !.items_ingested_count = @ + 1]
                       ELSE [@ EXCEPT !.pc = "remove_item"]]
    /\ uuids' = uuids + 1
    /\ UNCHANGED <<storage, input_dir, clock, proc, api, faults, conn>>

\* The same insert returning None (line 197) or raising (line 200): either way
\* the element's blob is removed next and the loop goes on.
ItemInsertFails(g) ==
    /\ ing[g].pc = "item_insert"
    /\ faults.inserts < MaxInsertFaults
    /\ faults' = [faults EXCEPT !.inserts = @ + 1]
    /\ ing' = [ing EXCEPT ![g].pc = "remove_item"]
    /\ UNCHANGED <<db, storage, input_dir, clock, uuids, proc, api, conn>>

\* Lines 199 and 202.
RemoveItem(g) ==
    /\ ing[g].pc = "remove_item"
    /\ storage' = RemoveIfExists(storage, ing[g].item_target)
    /\ ing' = [ing EXCEPT ![g].pc = "item_write", ![g].index = @ + 1]
    /\ UNCHANGED <<db, input_dir, clock, uuids, proc, api, faults, conn>>

\* Lines 206, 218, 231, 247: os.remove(source_filepath).  A source that is
\* gone raises FileNotFoundError.
RemoveSource(g) ==
    /\ ing[g].pc = "remove_source"
    /\ IF original_filename(g) \in DOMAIN input_dir
       THEN /\ input_dir' = RemoveIfExists(input_dir, original_filename(g))
            /\ ing' = [ing EXCEPT ![g] = Continue(g)]
       ELSE /\ input_dir' = input_dir
            /\ ing' = [ing EXCEPT ![g].pc = Handler(ing[g].path),
                                  ![g].exception = "FileNotFoundError"]
    /\ UNCHANGED <<db, storage, clock, uuids, proc, api, faults, conn>>

\* The same os.remove refused by the operating system (PermissionError: the
\* file is read-only or still held open by its writer).
RemoveSourceFails(g) ==
    /\ ing[g].pc = "remove_source"
    /\ original_filename(g) \in DOMAIN input_dir
    /\ faults.removes < MaxRemoveFaults
    /\ faults' = [faults EXCEPT !.removes = @ + 1]
    /\ ing' = [ing EXCEPT ![g].pc = Handler(ing[g].path),
                          ![g].exception = "PermissionError"]
    /\ UNCHANGED <<db, storage, input_dir, clock, uuids, proc, api, conn>>

\* Lines 236-238: except Exception as e_json_proc removes the copy.
ExceptJson(g) ==
    /\ ing[g].pc = "except_json"
    /\ storage' = RemoveIfExists(storage, ing[g].target)
    /\ ing' = [ing EXCEPT ![g] = Continue(g)]
    /\ UNCHANGED <<db, input_dir, clock, uuids, proc, api, faults, conn>>

\* Lines 253-261: the outer except Exception.  When the copy exists, line 257
\* goes on to call get_data_object_by_id, a name the module never imports
\* (line 8): NameError, raised inside the handler, leaves ingest_new_data.
\* When the copy does not exist the condition is false and the loop goes on.
ExceptOuter(g) ==
    /\ ing[g].pc = "except_outer"
    /\ ing' = [ing EXCEPT ![g] =
                 IF ing[g].target \in DOMAIN storage
                 THEN [@ EXCEPT !.pc = "aborted", !.exception = "NameError"]
                 ELSE Continue(g)]
    /\ UNCHANGED <<db, storage, input_dir, clock, uuids, proc, api, faults, conn>>

InScan(g) ==
    ing[g].pc \in {"next_file", "copy", "parse", "insert", "remove_blob",
                   "item_write", "item_insert", "remove_item", "remove_source",
                   "except_json", "except_outer"}

\* The Ingestor process dies in the middle of a scan.
IngestorCrash(g) ==
    /\ InScan(g)
    /\ faults.crashes < MaxCrashes
    /\ faults' = [faults EXCEPT !.crashes = @ + 1]
    /\ ing' = [ing EXCEPT ![g].pc = "crashed"]
    /\ UNCHANGED <<db, storage, input_dir, clock, uuids, proc, api, conn>>

\* The service is started again: run_ingestor_service from its first line.
IngestorRestart(g) ==
    /\ ing[g].pc \in {"crashed", "aborted"}
    /\ ing' = [ing EXCEPT ![g] = [IngStart EXCEPT !.scans = ing[g].scans]]
    /\ UNCHANGED <<db, storage, input_dir, clock, uuids, proc, api, faults, conn>>

----------------------------------------------------------------------------
(* One Ingestor over an input directory into which files were dropped,     *)
(* against an empty catalog.                                               *)

\* The files that may have been dropped, and what each may hold.
DroppedNames ==
    {Name(<<"a">>, "json"), Name(<<"b">>, "json"), Name(<<"c">>, "json"),
     Name(<<"d">>, "txt"), Name(<<"finance">>, ""),
     Name(<<"a", "item", "0">>, "json")}

DroppedContents(name) ==
    CASE name = Name(<<"a">>, "json") ->
            { JsonContent(JArray([i \in 1..n |-> JObject(i)])) : n \in 1..MaxItems }
      [] name = Name(<<"b">>, "json") ->
            { JsonContent(JObject(2)), JsonContent(JArray(<<>>)) }
      [] name = Name(<<"c">>, "json") -> { GarbageContent, UndecodableContent }
      [] name = Name(<<"a", "item", "0">>, "json") -> { JsonContent(JObject(2)) }
      [] name = Name(<<"finance">>, "") ->
            { DirContent([n \in {Name(<<"broken">>, "json")} |-> GarbageContent]) }
      [] OTHER -> { TextContent }

IngestInit ==
    /\ db = EmptyDb
    /\ storage = <<>>
    /\ \E names \in SUBSET DroppedNames :
          /\ Cardinality(names) \in 1..MaxFiles
          /\ \E contents \in [names -> UNION { DroppedContents(n) : n \in names }] :
                /\ \A n \in names : contents[n] \in DroppedContents(n)
                /\ input_dir = contents
    /\ clock = 0
    /\ uuids = 0
    /\ proc = [r \in Replicas |-> [ProcStart EXCEPT !.pc = "off"]]
    /\ ing = [g \in Ingestors |->
                IF g = 1 THEN IngStart ELSE [IngStart EXCEPT !.pc = "off"]]
    /\ api = {}
    /\ faults = NoFaults
    /\ conn = NoCalls

IngestNext ==
    \/ Scan(1)
    \/ NextFile(1)
    \/ Copy(1)
    \/ CopyFails(1)
    \/ Parse(1)
    \/ Insert(1)
    \/ InsertFails(1)
    \/ InsertRaises(1)
    \/ RemoveBlob(1)
    \/ ItemWrite(1)
    \/ ItemWriteFails(1)
    \/ ItemInsert(1)
    \/ ItemInsertFails(1)
    \/ RemoveItem(1)
    \/ RemoveSource(1)
    \/ RemoveSourceFails(1)
    \/ ExceptJson(1)
    \/ ExceptOuter(1)
    \/ IngestorCrash(1)
    \/ IngestorRestart(1)

IngestSpec == IngestInit /\ [][IngestNext]_vars

----------------------------------------------------------------------------
(* Two Ingestor replicas over the same input directory, with no fault other *)
(* than what one replica does to the other.                                 *)

\* One file has been dropped: an array, a JSON object or a text file.
ReplicaDrops == {Name(<<"a">>, "json"), Name(<<"b">>, "json"), Name(<<"d">>, "txt")}

ReplicaInit ==
    /\ db = EmptyDb
    /\ storage = <<>>
    /\ \E n \in ReplicaDrops, content \in UNION { DroppedContents(m) : m \in ReplicaDrops } :
          /\ content \in DroppedContents(n)
          /\ input_dir = [m \in {n} |-> content]
    /\ clock = 0
    /\ uuids = 0
    /\ proc = [r \in Replicas |-> [ProcStart EXCEPT !.pc = "off"]]
    /\ ing = [g \in Ingestors |-> IngStart]
    /\ api = {}
    /\ faults = NoFaults
    /\ conn = NoCalls

ReplicaNext ==
    \/ \E g \in Ingestors : Scan(g)
    \/ \E g \in Ingestors : NextFile(g)
    \/ \E g \in Ingestors : Copy(g)
    \/ \E g \in Ingestors : Parse(g)
    \/ \E g \in Ingestors : Insert(g)
    \/ \E g \in Ingestors : ItemWrite(g)
    \/ \E g \in Ingestors : ItemInsert(g)
    \/ \E g \in Ingestors : RemoveSource(g)
    \/ \E g \in Ingestors : ExceptJson(g)
    \/ \E g \in Ingestors : ExceptOuter(g)
    \/ \E g \in Ingestors : IngestorRestart(g)

ReplicaSpec == ReplicaInit /\ [][ReplicaNext]_vars

----------------------------------------------------------------------------
(* db_manager.py as the facade's request threads and the tests call it.    *)
(* Every call opens its own connection (get_db_connection).  A call of     *)
(* insert_data_object is taken statement by statement, its uncommitted     *)
(* writes kept in conn[c].txn; update_data_object, delete_data_object and  *)
(* get_data_objects are taken as one transaction each.                     *)
(*                                                                         *)
(* conn[c].pc                                                              *)
(*   "idle"         no call in progress; op, the arguments and ret are     *)
(*                  those of the caller's last call                        *)
(*   "insert_row"   lines 136-147    "manage_tags"  line 150               *)
(*   "commit"       line 152         "rollback"     lines 155-158          *)
(* ret is the value returned, as Python prints it; seen is the set of the  *)
(* ids a get_data_objects call returned; where is the filter of a          *)
(* get_data_objects_count call; obj is what a get_data_object_by_id call   *)
(* returned; tags_list is the list passed as tags to insert_data_object    *)
(* and tags the set of the names in the list passed (set(tags_list), line  *)
(* 104); graph is what a get_tag_graph_data call returned, fields then     *)
(* holding its two arguments; response is what a handler of data_api.py    *)
(* answered: the status code, total_records of a list, and the objects of  *)
(* the JSON body in their order.                                           *)

\* No response sent.
NoResponse == [code |-> NULL, total_records |-> 0, data |-> <<>>]

\* No graph returned.
NoGraph == [nodes |-> {}, links |-> {}]

\* The filter arguments of a query, none of them given.
NoFilter == [status |-> NULL, file_type |-> NoType, name_like |-> "", tags |-> <<>>]

ConnIdle ==
    [pc |-> "idle", op |-> NULL, calls |-> 0, object_id |-> NULL,
     parent |-> NULL, tags_list |-> <<>>, tags |-> {}, fields |-> <<>>,
     patterns |-> <<>>, where |-> NoFilter, now |-> 0, txn |-> EmptyDb,
     ret |-> NULL, seen |-> {}, obj |-> NoObj, graph |-> NoGraph,
     response |-> NoResponse]

\* The caller's record when it starts its next call.
NewCall(c, op) == [ConnIdle EXCEPT !.op = op, !.calls = conn[c].calls + 1]

\* Connections that read the uncommitted writes of a transaction.
ReadUncommitted(committed, working) == working

\* What the other connections read while a transaction holds uncommitted
\* writes: SQLite shows them the committed database.
Visible(committed, working) == committed

\* SQLite lets one connection write at a time: the callers whose transaction
\* has written and has neither committed nor rolled back.
Writers == { c \in Clients : conn[c].pc \in {"manage_tags", "commit", "rollback"} }

\* The callers that update, delete and list; every caller inserts.
Callers == {1}

\* The arguments the callers of the model pass.
InsertParents == {NULL, Uuid(0), Uuid(1)}
InsertTagLists ==
    {<<>>, <<"finance_report", "report">>, <<"Finance", "finance", "finance">>,
     <<"q1,q2">>}
UpdateIds == {Uuid(0), Uuid(1)}
UpdateFields ==
    {[status |-> "classified"], [id |-> "id9", quality_score |-> 700],
     [source_original_id |-> Uuid(0)]}
UpdateTagLists == {NoTags, {}, {"finance", "report"}}
TagPatterns ==
    {<<"json">>, <<"json", "item">>, <<"item", "item">>, <<"fin", "report">>,
     <<"json_item", "unclassified">>}

\* The row a caller's insert_data_object writes.
UploadRow(c) ==
    NewRow(Name(<<"upload">>, "txt"), TEXT_PLAIN,
           FILE_STORAGE_DIR \o "/upload_" \o conn[c].object_id, "summary",
           conn[c].parent, NULL, conn[c].now)

\* Line 132: tags_to_insert = tags if tags else ["unclassified"].
tags_to_insert(tags) == IF tags = {} THEN {"unclassified"} ELSE tags

\* Lines 127-132: the connection, current_time, new_id, tags_to_insert.
InsertCall(c) ==
    /\ conn[c].pc = "idle"
    /\ conn[c].calls < MaxCalls
    /\ uuids < NumEntries + MaxInserts
    /\ \E parent \in InsertParents, tags \in InsertTagLists :
          conn' = [conn EXCEPT ![c] =
                     [NewCall(c, "insert") EXCEPT
                        !.pc = "insert_row", !.object_id = Uuid(uuids + 1),
                        !.parent = parent, !.tags_list = tags,
                        !.tags = Range(tags), !.now = clock]]
    /\ uuids' = uuids + 1
    /\ UNCHANGED <<db, storage, input_dir, clock, proc, ing, api, faults>>

\* Lines 136-147: BEGIN and the INSERT of the row.  The FOREIGN KEY of
\* source_original_id makes the INSERT raise when the parent row is absent.
InsertRowStep(c) ==
    /\ conn[c].pc = "insert_row"
    /\ Writers = {}
    /\ LET row == UploadRow(c)
           new_id == conn[c].object_id
           fk_ok == row.source_original_id = NULL \/ row.source_original_id \in Ids(db)
           d1 == [db EXCEPT !.data_objects =
                    [i \in Ids(db) \cup {new_id} |->
                       IF i = new_id THEN row ELSE db.data_objects[i]]]
       IN IF fk_ok /\ new_id \notin Ids(db)
          THEN /\ conn' = [conn EXCEPT ![c].pc = "manage_tags", ![c].txn = d1]
               /\ db' = Visible(db, d1)
          ELSE /\ conn' = [conn EXCEPT ![c].pc = "rollback", ![c].txn = db]
               /\ db' = db
    /\ UNCHANGED <<storage, input_dir, clock, uuids, proc, ing, api, faults>>

\* Line 150: _manage_tags on the transaction's cursor.
ManageTagsStep(c) ==
    /\ conn[c].pc = "manage_tags"
    /\ LET m == _manage_tags(conn[c].txn, conn[c].object_id,
                             tags_to_insert(conn[c].tags))
       IN IF m.ok
          THEN /\ conn' = [conn EXCEPT ![c].pc = "commit", ![c].txn = m.db]
               /\ db' = Visible(db, m.db)
          ELSE /\ conn' = [conn EXCEPT ![c].pc = "rollback"]
               /\ db' = db
    /\ UNCHANGED <<storage, input_dir, clock, uuids, proc, ing, api, faults>>

\* Lines 152-154: commit, return new_id.
CommitStep(c) ==
    /\ conn[c].pc = "commit"
    /\ db' = conn[c].txn
    /\ conn' = [conn EXCEPT ![c].pc = "idle", ![c].txn = EmptyDb,
                            ![c].ret = conn[c].object_id]
    /\ UNCHANGED <<storage, input_dir, clock, uuids, proc, ing, api, faults>>

\* A statement of the transaction, or its commit, raises sqlite3.Error (the
\* database is locked, the disk is full).
SqliteError(c) ==
    /\ conn[c].pc \in {"insert_row", "manage_tags", "commit"}
    /\ faults.inserts < MaxInsertFaults
    /\ faults' = [faults EXCEPT !.inserts = @ + 1]
    /\ conn' = [conn EXCEPT ![c].pc = "rollback"]
    /\ UNCHANGED <<db, storage, input_dir, clock, uuids, proc, ing, api>>

\* Lines 155-158: rollback, return None.
RollbackStep(c) ==
    /\ conn[c].pc = "rollback"
    /\ db' = Visible(db, db)
    /\ conn' = [conn EXCEPT ![c].pc = "idle", ![c].txn = EmptyDb, ![c].ret = NULL]
    /\ UNCHANGED <<storage, input_dir, clock, uuids, proc, ing, api, faults>>

\* bool as Python prints it.
BoolStr(b) == IF b THEN "True" ELSE "False"

\* update_data_object(object_id, **fields[, tags=tags]), lines 326-378.
Update(c) ==
    /\ conn[c].pc = "idle"
    /\ conn[c].calls < MaxCalls
    /\ Writers = {}
    /\ \E object_id \in UpdateIds, fields \in UpdateFields, tags \in UpdateTagLists :
          LET res == update_data_object(db, object_id, fields, tags, clock)
          IN /\ db' = res.db
             /\ conn' = [conn EXCEPT ![c] =
                           [NewCall(c, "update") EXCEPT
                              !.object_id = object_id, !.fields = fields,
                              !.tags = tags, !.now = clock,
                              !.ret = BoolStr(res.ret)]]
    /\ UNCHANGED <<storage, input_dir, clock, uuids, proc, ing, api, faults>>

\* delete_data_object(object_id), lines 381-401.
Delete(c) ==
    /\ conn[c].pc = "idle"
    /\ conn[c].calls < MaxCalls
    /\ Writers = {}
    /\ \E object_id \in UpdateIds :
          LET res == delete_data_object(db, object_id)
          IN /\ db' = res.db
             /\ conn' = [conn EXCEPT ![c] =
                           [NewCall(c, "delete") EXCEPT
                              !.object_id = object_id, !.ret = BoolStr(res.ret)]]
    /\ UNCHANGED <<storage, input_dir, clock, uuids, proc, ing, api, faults>>

\* get_data_objects(tags=patterns), lines 162-253, with the default limit.
List(c) ==
    /\ conn[c].pc = "idle"
    /\ conn[c].calls < MaxCalls
    /\ \E patterns \in TagPatterns :
          \E s \in get_data_objects(db, NULL, NoType, "", patterns, DEFAULT_LIMIT) :
             conn' = [conn EXCEPT ![c] =
                        [NewCall(c, "list") EXCEPT
                           !.patterns = patterns, !.seen = Range(s)]]
    /\ UNCHANGED <<db, storage, input_dir, clock, uuids, proc, ing, api, faults>>

\* The ids the callers look up: the seeded entries and the first inserted.
GetIds == UpdateIds \cup {Uuid(NumEntries + 1)}

\* get_data_object_by_id(object_id), lines 302-324.
Get(c) ==
    /\ conn[c].pc = "idle"
    /\ conn[c].calls < MaxCalls
    /\ \E object_id \in GetIds :
          conn' = [conn EXCEPT ![c] =
                     [NewCall(c, "get") EXCEPT
                        !.object_id = object_id,
                        !.obj = get_data_object_by_id(db, object_id)]]
    /\ UNCHANGED <<db, storage, input_dir, clock, uuids, proc, ing, api, faults>>

\* The filters the callers count under.
CountFilters ==
    {NoFilter,
     [NoFilter EXCEPT !.tags = <<"report">>],
     [NoFilter EXCEPT !.tags = <<"fin", "report">>],
     [NoFilter EXCEPT !.status = "new", !.tags = <<"json">>],
     [NoFilter EXCEPT !.file_type = TEXT_PLAIN, !.name_like = "upload"]}

\* get_data_objects_count(status, file_type, tags, name_like), lines 255-300.
Count(c) ==
    /\ conn[c].pc = "idle"
    /\ conn[c].calls < MaxCalls
    /\ \E f \in CountFilters :
          conn' = [conn EXCEPT ![c] =
                     [NewCall(c, "count") EXCEPT
                        !.where = f,
                        !.ret = NatToStr(get_data_objects_count(
                                   db, f.status, f.file_type, f.name_like, f.tags))]]
    /\ UNCHANGED <<db, storage, input_dir, clock, uuids, proc, ing, api, faults>>

\* Time passes between two calls.
Tick ==
    /\ clock < NumEntries + 1 + MaxTicks
    /\ clock' = clock + 1
    /\ UNCHANGED <<db, storage, input_dir, uuids, proc, ing, api, faults, conn>>

\* The catalogs the callers start from: a container with one item, and two
\* unrelated entries, as the Ingestor records them.
CatalogSeeds == {<<"json_container", "json_item">>, <<"text", "image">>}

\* NumEntries entries: those of the list, then text files.
CatalogKinds(kinds) ==
    [k \in 1..NumEntries |-> IF k <= Len(kinds) THEN kinds[k] ELSE "text"]

CatalogInit ==
    /\ \E kinds \in CatalogSeeds :
          /\ db = SeedDb(CatalogKinds(kinds), NumEntries)
          /\ storage = SeedStorage(CatalogKinds(kinds))
    /\ input_dir = <<>>
    /\ clock = NumEntries + 1
    /\ uuids = NumEntries
    /\ proc = [r \in Replicas |-> [ProcStart EXCEPT !.pc = "off"]]
    /\ ing = <<>>
    /\ api = {}
    /\ faults = NoFaults
    /\ conn = [c \in Clients |-> ConnIdle]

CatalogNext ==
    \/ \E c \in Clients : InsertCall(c)
    \/ \E c \in Clients : InsertRowStep(c)
    \/ \E c \in Clients : ManageTagsStep(c)
    \/ \E c \in Clients : CommitStep(c)
    \/ \E c \in Clients : SqliteError(c)
    \/ \E c \in Clients : RollbackStep(c)
    \/ \E c \in Callers : Update(c)
    \/ \E c \in Callers : Delete(c)
    \/ \E c \in Callers : List(c)
    \/ \E c \in Callers : Count(c)
    \/ \E c \in Callers : Get(c)
    \/ Tick

CatalogSpec == CatalogInit /\ [][CatalogNext]_vars

----------------------------------------------------------------------------
(* get_tag_graph_data on the catalogs that updates of the tags produce.    *)

\* The tag lists the callers give the entries, the entries they give them to
\* and the thresholds they ask the graph for.
GraphTagLists ==
    {{}, {"finance"}, {"report"}, {"finance", "report"},
     {"finance", "report", "json"}}
GraphIds == {Uuid(1), Uuid(2)}
MinFrequencies == {0, 1, 2}
MinLinkStrengths == {0, 1, 2}

\* update_data_object(object_id, tags=tags), lines 326-378.
Retag(c) ==
    /\ conn[c].pc = "idle"
    /\ conn[c].calls < MaxRetags
    /\ \E object_id \in GraphIds, tags \in GraphTagLists :
          LET res == update_data_object(db, object_id, <<>>, tags, clock)
          IN /\ db' = res.db
             /\ conn' = [conn EXCEPT ![c] =
                           [NewCall(c, "update") EXCEPT
                              !.object_id = object_id, !.tags = tags,
                              !.now = clock, !.ret = BoolStr(res.ret)]]
    /\ UNCHANGED <<storage, input_dir, clock, uuids, proc, ing, api, faults>>

\* get_tag_graph_data(min_frequency, min_link_strength), lines 403-457.
Graph(c) ==
    /\ conn[c].pc = "idle"
    /\ conn[c].calls <= MaxRetags
    /\ \E min_frequency \in MinFrequencies, min_link_strength \in MinLinkStrengths :
          \E tag_id \in TagIds(db) :
             conn' = [conn EXCEPT ![c] =
                        [NewCall(c, "graph") EXCEPT
                           !.fields = [min_frequency |-> min_frequency,
                                       min_link_strength |-> min_link_strength],
                           !.graph = get_tag_graph_data(
                                        db, tag_id, min_frequency, min_link_strength)]]
    /\ UNCHANGED <<db, storage, input_dir, clock, uuids, proc, ing, api, faults>>

GraphNext ==
    \/ \E c \in Callers : Retag(c)
    \/ \E c \in Callers : Graph(c)

\* The catalog of two unrelated entries the Ingestor recorded.
GraphInit ==
    /\ CatalogInit
    /\ db = SeedDb(CatalogKinds(<<"text", "image">>), NumEntries)

GraphSpec == GraphInit /\ [][GraphNext]_vars

----------------------------------------------------------------------------
(* data_api.py: the handlers of GET /api/data, GET /api/data/<id>, POST    *)
(* /api/data and PUT /api/data/<id>, each taken as one step of the request *)
(* thread c.  conn[c].fields holds the form of the request.                *)

\* float(s) on the strings the requests of the model carry: ok is FALSE for
\* the ValueError of a string that is no number; value is in thousandths.
float(s) ==
    CASE s = "0.7" -> [ok |-> TRUE, value |-> 700]
      [] s = "1.5" -> [ok |-> TRUE, value |-> 1500]
      [] s = "-3" -> [ok |-> TRUE, value |-> 0 - 3000]
      [] OTHER -> [ok |-> FALSE, value |-> 0]

\* [tag.strip() for tag in s.split(',') if tag.strip()] (lines 136 and 176).
form_tags(s) == { strip(t) : t \in split(s) } \ {""}

\* is_valid_uuid (lines 10-15), the ids of the model being the valid UUIDs.
is_valid_uuid(s) == \E n \in 0..(NumEntries + 2 * MaxCalls) : s = Uuid(n)

\* A response object that keeps its content_location.
unsafe_obj(obj) == obj

\* safe_obj: the dict of an object with the key content_location deleted
\* (lines 56-58, 77-79, 153-154, 200-201).
safe_obj(obj) ==
    [obj EXCEPT !.row = [f \in DOMAIN obj.row \ {"content_location"} |-> obj.row[f]]]

Response(code, data) == [code |-> code, total_records |-> 0, data |-> data]

\* The requests of the model.
ListArgs ==
    {[status |-> NULL, type |-> NoType, limit |-> 30],
     [status |-> "new", type |-> TEXT_PLAIN, limit |-> 1],
     [status |-> NULL, type |-> JSON_ITEM_TYPE, limit |-> 0]}
RequestIds == {Uuid(1), Uuid(NumEntries + 2), "not-a-uuid"}
CreateForms ==
    {[name |-> Name(<<"upload">>, "txt"), type |-> TEXT_PLAIN, status |-> "new",
      tags |-> "Finance, report ,   ", quality_score |-> "0.7"],
     [name |-> Name(<<"upload">>, "txt"), type |-> TEXT_PLAIN, status |-> "new",
      tags |-> "", quality_score |-> "1.5"],
     [name |-> Name(<<"upload">>, "txt"), type |-> JSON_ITEM_TYPE, status |-> "new",
      tags |-> "", quality_score |-> "0.7"],
     [name |-> Name(<<"upload">>, "txt"), type |-> TEXT_PLAIN, status |-> "new",
      tags |-> "", quality_score |-> "abc"],
     [name |-> Name(<<"upload">>, "txt"), type |-> TEXT_PLAIN, status |-> "",
      tags |-> "", quality_score |-> "0.7"]}
UpdateForms ==
    {<<>>,
     [status |-> "classified", quality_score |-> "0.7"],
     [quality_score |-> "-3"],
     [quality_score |-> "abc"],
     [type |-> JSON_ITEM_TYPE],
     [tags |-> "Finance, report ,   "]}

\* list_data_objects_api, lines 36-67, for limit and offset parameters that
\* are integers, offset 0.
ApiList(c) ==
    /\ conn[c].pc = "idle"
    /\ conn[c].calls < MaxCalls
    /\ \E args \in ListArgs :
          LET limit == IF 0 < args.limit /\ args.limit <= 100 THEN args.limit ELSE 30
          IN \E data_list \in get_data_objects(db, args.status, args.type, "", <<>>, limit) :
                conn' = [conn EXCEPT ![c] =
                  [NewCall(c, "list_data_objects_api") EXCEPT
                     !.fields = args,
                     !.response =
                        [code |-> "200",
                         total_records |->
                            get_data_objects_count(db, args.status, args.type, "", <<>>),
                         data |-> [k \in 1..Len(data_list) |->
                                     safe_obj(ObjOf(db, data_list[k]))]]]]
    /\ UNCHANGED <<db, storage, input_dir, clock, uuids, proc, ing, api, faults>>

\* get_single_data_object_api, lines 69-81.
ApiGet(c) ==
    /\ conn[c].pc = "idle"
    /\ conn[c].calls < MaxCalls
    /\ \E object_id_str \in RequestIds :
          LET data_obj == get_data_object_by_id(db, object_id_str)
          IN conn' = [conn EXCEPT ![c] =
               [NewCall(c, "get_single_data_object_api") EXCEPT
                  !.object_id = object_id_str,
                  !.response =
                     IF ~is_valid_uuid(object_id_str) THEN Response("400", <<>>)
                     ELSE IF data_obj = NoObj THEN Response("404", <<>>)
                     ELSE Response("200", <<safe_obj(data_obj)>>)]]
    /\ UNCHANGED <<db, storage, input_dir, clock, uuids, proc, ing, api, faults>>

\* create_data_object, lines 119-161, with a file part named upload.txt.  The
\* file is saved under a fresh uuid4 hex; float() of quality_score may raise
\* ValueError, which the except clause answers with 500 after removing the
\* file; insert_data_object may return None (sqlite3.Error).
ApiCreate(c) ==
    /\ conn[c].pc = "idle"
    /\ conn[c].calls < MaxCalls
    /\ \E form \in CreateForms, failed \in BOOLEAN :
          LET file_path == FILE_STORAGE_DIR \o "/" \o Uuid(uuids + 1) \o "_upload.txt"
              saved == Written(storage, file_path, TextContent)
              tags == form_tags(form.tags)
              score == float(form.quality_score)
              row == [NewRow(form.name, form.type, file_path, "", NULL, NULL, clock)
                        EXCEPT !.quality_score = score.value, !.status = form.status]
              res == insert_data_object(db, Uuid(uuids + 2), row, tags)
              call == [NewCall(c, "create_data_object") EXCEPT !.fields = form]
          IN /\ failed => faults.inserts < MaxInsertFaults
             /\ IF form.status = ""
                THEN /\ conn' = [conn EXCEPT ![c] =
                                   [call EXCEPT !.response = Response("400", <<>>)]]
                     /\ UNCHANGED <<db, storage, uuids, faults>>
                ELSE IF ~score.ok \/ failed \/ res.ret = NULL
                THEN /\ conn' = [conn EXCEPT ![c] =
                                   [call EXCEPT !.response = Response("500", <<>>)]]
                     /\ storage' = RemoveIfExists(saved, file_path)
                     /\ uuids' = uuids + 2
                     /\ faults' = IF score.ok /\ failed
                                  THEN [faults EXCEPT !.inserts = @ + 1] ELSE faults
                     /\ db' = db
                ELSE /\ db' = res.db
                     /\ storage' = saved
                     /\ uuids' = uuids + 2
                     /\ faults' = faults
                     /\ conn' = [conn EXCEPT ![c] =
                          [call EXCEPT
                             !.object_id = res.ret,
                             !.response =
                                Response("201",
                                   <<safe_obj(get_data_object_by_id(res.db, res.ret))>>)]]
    /\ UNCHANGED <<input_dir, clock, proc, ing, api>>

\* The keyword arguments update_data_object_api builds from the form (lines
\* 172-182), tags apart.
UpdatesOf(form) ==
    [f \in DOMAIN form \ {"tags"} |->
        IF f = "quality_score" THEN float(form[f]).value ELSE form[f]]

\* update_data_object_api, lines 163-204, without a file part.
ApiUpdate(c) ==
    /\ conn[c].pc = "idle"
    /\ conn[c].calls < MaxCalls
    /\ \E object_id_str \in RequestIds, form \in UpdateForms :
          LET tags == IF "tags" \in DOMAIN form THEN form_tags(form.tags) ELSE NoTags
              bad_score == "quality_score" \in DOMAIN form
                              /\ ~float(form.quality_score).ok
              res == update_data_object(db, object_id_str, UpdatesOf(form), tags, clock)
              call == [NewCall(c, "update_data_object_api") EXCEPT
                         !.object_id = object_id_str, !.fields = form]
          IN IF ~is_valid_uuid(object_id_str) \/ bad_score \/ DOMAIN form = {}
             THEN /\ conn' = [conn EXCEPT ![c] =
                                [call EXCEPT !.response = Response("400", <<>>)]]
                  /\ db' = db
             ELSE IF ~res.ret
             THEN /\ conn' = [conn EXCEPT ![c] =
                                [call EXCEPT !.response = Response("404", <<>>)]]
                  /\ db' = res.db
             ELSE /\ db' = res.db
                  /\ conn' = [conn EXCEPT ![c] =
                       [call EXCEPT
                          !.response =
                             Response("200",
                                <<safe_obj(get_data_object_by_id(res.db, object_id_str))>>)]]
    /\ UNCHANGED <<storage, input_dir, clock, uuids, proc, ing, api, faults>>

ApiNext ==
    \/ \E c \in Callers : ApiList(c)
    \/ \E c \in Callers : ApiGet(c)
    \/ \E c \in Callers : ApiCreate(c)
    \/ \E c \in Callers : ApiUpdate(c)

ApiSpec == CatalogInit /\ [][ApiNext]_vars

----------------------------------------------------------------------------
(* One Classifier process and the facade's PUT and DELETE handlers beside   *)
(* it, over a catalog of text and image entries.                            *)

RaceKinds == {"text", "image"}

RaceInit ==
    /\ \E kinds \in [1..NumEntries -> RaceKinds] :
          /\ db = SeedDb(kinds, NumEntries)
          /\ storage = SeedStorage(kinds)
    /\ input_dir = <<>>
    /\ clock = NumEntries + 1
    /\ uuids = NumEntries
    /\ proc = [r \in Replicas |->
                 IF r = 1 THEN ProcStart ELSE [ProcStart EXCEPT !.pc = "off"]]
    /\ ing = <<>>
    /\ api = {}
    /\ faults = NoFaults
    /\ conn = [c \in Clients |-> ConnIdle]

RaceNext ==
    \/ ClassifierStep(1)
    \/ \E i \in Ids(db) : ApiDeleteBlob(i)
    \/ \E i \in api : ApiDeleteRow(i)
    \/ \E c \in Callers : ApiUpdate(c)

RaceSpec == RaceInit /\ [][RaceNext]_vars

----------------------------------------------------------------------------
(* Claims about the Classifier *)

Status(i) == db.data_objects[i].status

\* In this step replica r executes line 239 and goes on to handle the entry.
ClaimStep(r) == proc[r].pc = "claim" /\ proc'[r].pc = "stat"

\* C1: with several replicas on one catalog, the claim step (new -> processing)
\* takes a replica into handling an entry only when the row was still new, so
\* that at most one replica claims an entry and a replica that finds it no
\* longer new skips it.
C1_ClaimOnlyWhileNew ==
    [][\A r \in Replicas :
          ClaimStep(r) =>
             (Obj(r).id \in Ids(db) /\ Status(Obj(r).id) = "new")]_vars

ClassifierTransitions ==
    {<<"new", "processing">>, <<"processing", "classified">>,
     <<"processing", "error">>}

\* C2: every status change written to an entry is new -> processing,
\* processing -> classified or processing -> error; a classified or error
\* entry never changes status.  (The facade of this specification removes
\* rows and writes no status, so every status change is the Classifier's.)
C2_OnlyForwardTransitions ==
    [][\A i \in Ids(db) \cap DOMAIN db'.data_objects :
          db'.data_objects[i].status # Status(i) =>
             <<Status(i), db'.data_objects[i].status>> \in ClassifierTransitions]_vars

\* In this step the handling of replica r's entry raises an exception.
RaiseStep(r) ==
    /\ proc[r].pc \in {"stat", "analyse"}
    /\ proc'[r].pc \notin {"stat", "analyse", "persist"}

\* C3: a failure raised while handling an entry after the claim (missing blob,
\* JSON decode failure, any other exception), for an entry of any type, is
\* caught for that entry alone: control goes to a handler that records the
\* entry as error with a diagnostic tag, and the rest of the batch is kept to
\* be processed in the same run.
C3_FailureCaughtPerEntry ==
    [][\A r \in Replicas :
          RaiseStep(r) =>
             /\ proc'[r].pc = "handle_file_not_found"
             /\ proc'[r].batch = proc[r].batch]_vars

\* In this step replica r's run of process_data_objects ends.
RunEnds(r) ==
    /\ proc[r].pc \notin {"start", "returned", "raised", "off"}
    /\ proc'[r].pc \in {"returned", "raised"}

\* C4: when a run of process_data_objects ends, by returning or by raising,
\* every entry it marked processing (and that still exists) is classified or
\* error.
C4_NoEntryLeftProcessing ==
    [][\A r \in Replicas :
          RunEnds(r) =>
             \A i \in proc'[r].marked \cap DOMAIN db'.data_objects :
                db'.data_objects[i].status \in {"classified", "error"}]_vars

SeedIds == { Uuid(k) : k \in 1..NumEntries }

\* The process of replica r died while entry i, which it had marked
\* processing, was still processing.
CrashedOn(r, i) ==
    /\ proc[r].pc = "crashed"
    /\ proc[r].batch # <<>>
    /\ Obj(r).id = i
    /\ i \in proc[r].marked
    /\ i \in Ids(db)
    /\ Status(i) = "processing"

\* C5: an entry left processing by a crash of the Classifier reaches
\* classified or error (or is deleted) once the service runs again.
C5_CrashedEntryIsFinished ==
    \A i \in SeedIds :
        CrashedOn(1, i) ~> (i \notin Ids(db) \/ Status(i) \in {"classified", "error"})

\* The types whose blob lines 256-287 read: text and JSON with open(), image
\* inside get_image_base64_uri and simple_score_image_quality, which catch
\* every exception of their own.
ReadsBlob(obj_type) ==
    \/ obj_type[1] = "text"
    \/ obj_type[1] = "image"
    \/ obj_type = APPLICATION_JSON
    \/ obj_type = JSON_ITEM_TYPE

\* In this step replica r looks for the blob of its entry and does not find it.
BlobMissingAt(r, places) ==
    /\ proc[r].pc \in places
    /\ proc'[r].pc # proc[r].pc
    /\ ~BlobExists(Obj(r).row.content_location)

\* In this step replica r's except FileNotFoundError clause runs.
FileNotFoundHandled(r) ==
    /\ proc[r].pc = "handle_file_not_found"
    /\ proc'[r].pc # "handle_file_not_found"

\* What the handler leaves: the entry (unless its row was deleted meanwhile)
\* in status error with the tag, and the run going on.
FileNotFoundRecorded(r) ==
    /\ proc'[r].pc \in {"claim", "returned"}
    /\ Obj(r).id \in DOMAIN db'.data_objects =>
          /\ db'.data_objects[Obj(r).id].status = "error"
          /\ "file_not_found_error" \in TagsOf(db', Obj(r).id)

\* C6 as stated: a blob that is missing at the check, or that vanishes before
\* it is opened, puts the entry in status error with the tag
\* file_not_found_error, and no exception leaves process_data_objects.
C6_MissingBlobIsError ==
    [][\A r \in Replicas :
          /\ BlobMissingAt(r, {"stat"}) => proc'[r].pc = "handle_file_not_found"
          /\ (BlobMissingAt(r, {"analyse"}) /\ ReadsBlob(Obj(r).row.type)) =>
                proc'[r].pc = "handle_file_not_found"
          /\ FileNotFoundHandled(r) => FileNotFoundRecorded(r)]_vars

----------------------------------------------------------------------------
(* Claims about the Ingestor *)

\* The top-level entries (not items of a container) recorded under `name`.
TopLevel(d, name) ==
    { i \in Ids(d) : /\ d.data_objects[i].name = name
                     /\ d.data_objects[i].source_original_id = NULL }

\* The entries recorded as items of the container c.
ItemsOf(d, c) == { i \in Ids(d) : d.data_objects[i].source_original_id = c }

\* C7: the Ingestor removes a source file from the input directory only after
\* the catalog entry for that file (for a JSON array, the container entry) has
\* been committed; this holds for every step, also in runs where the process
\* dies at any position and is started again.
C7_SourceRemovedOnlyAfterEntry ==
    [][\A name \in DOMAIN input_dir :
          name \notin DOMAIN input_dir' => TopLevel(db, name) # {}]_vars

\* A dropped file that has been recorded and removed from the input directory.
C7_Witness ==
    \E i \in Ids(db) :
        /\ db.data_objects[i].source_original_id = NULL
        /\ db.data_objects[i].name \notin DOMAIN input_dir

\* In this step Ingestor g ends the handling of a file whose insert returned
\* None or raised.
FailedInsertHandled(g) ==
    /\ ing[g].pc \in {"remove_blob", "except_json", "except_outer"}
    /\ ing'[g].pc \in {"next_file", "aborted"}
    /\ ing[g].pc = "remove_blob" \/ ing[g].exception = "OperationalError"

\* C8: when recording a file's entry fails (the insert returns None or raises),
\* then at the end of that file's handling the blob copied for it is gone from
\* storage and the source file is still in the input directory, on each of the
\* container, single-JSON, invalid-JSON and non-JSON paths.
C8_FailedInsertLeavesNoBlob ==
    [][\A g \in Ingestors :
          FailedInsertHandled(g) =>
              /\ ing[g].target \notin DOMAIN storage'
              /\ original_filename(g) \in DOMAIN input_dir']_vars

\* C9: with one Ingestor and no crash, over any number of scans every dropped
\* file has at most one top-level entry.
C9_AtMostOneEntryPerFile ==
    faults.crashes = 0 =>
        \A name \in DroppedNames : Cardinality(TopLevel(db, name)) <= 1

\* In this step Ingestor g removes the source of an exploded array and ends
\* its handling.
ContainerDone(g) ==
    /\ ing[g].pc = "remove_source"
    /\ ing[g].path = "container"
    /\ ing'[g].pc = "next_file"

\* C10: when no call has failed and no process has died, the handling of a
\* JSON file holding a non-empty array of n elements ends with exactly one
\* container entry named after the file, exactly n json_item entries under it,
\* one for each index 0..n-1 with source_item_key the index as a string, and
\* the source file gone.
C10_ArrayBecomesContainerAndItems ==
    [][\A g \in Ingestors :
          (ContainerDone(g) /\ faults = NoFaults) =>
              LET name == original_filename(g)
                  n == Len(input_dir[name].json.items)
                  rows == db'.data_objects
              IN /\ Cardinality(TopLevel(db', name)) = 1
                 /\ \A c \in TopLevel(db', name) :
                       /\ rows[c].type = JSON_CONTAINER_TYPE
                       /\ Cardinality(ItemsOf(db', c)) = n
                       /\ \A i \in ItemsOf(db', c) : rows[i].type = JSON_ITEM_TYPE
                       /\ \A k \in 0..(n - 1) :
                             Cardinality({ i \in ItemsOf(db', c) :
                                 rows[i].source_item_key = NatToStr(k) }) = 1
                 /\ name \notin DOMAIN input_dir']_vars

\* An array of MaxItems elements exploded, with nothing having failed.
C10_Witness ==
    /\ faults = NoFaults
    /\ \E c \in Ids(db) :
          /\ db.data_objects[c].type = JSON_CONTAINER_TYPE
          /\ db.data_objects[c].name \notin DOMAIN input_dir
          /\ Cardinality(ItemsOf(db, c)) = MaxItems

\* The positions of ingest_new_data inside the handling of one file.
Handling ==
    {"copy", "parse", "insert", "remove_blob", "item_write", "item_insert",
     "remove_item", "remove_source", "except_json", "except_outer"}

\* In this step Ingestor g ends the handling of the file it is on, by going on
\* to the next name or by an exception that leaves ingest_new_data.
FileDone(g) ==
    /\ ing[g].pc \in Handling
    /\ ing'[g].pc \in {"next_file", "aborted"}

\* In this step Ingestor g, after the write or the insert of an element
\* failed, executes line 199 or 202.
ElementFailed(g) ==
    /\ ing[g].pc = "remove_item"
    /\ ing'[g].pc \notin {"remove_item", "crashed"}

\* In this step the loop over the elements (lines 175-202) ends.
LoopEnds(g) ==
    /\ ing[g].pc = "item_write"
    /\ ing[g].index = Len(ing[g].json_content.items)
    /\ ing'[g].pc \notin {"item_write", "crashed"}

\* C11: when the write or the insert of an array element fails, that element's
\* blob is removed and the loop goes on with the next element, the container
\* entry staying in the catalog; when the loop ends, the entries under the
\* container are the elements that did not fail, however many failed, and the
\* source file is removed next.
C11_FailedElementIsSkipped ==
    [][\A g \in Ingestors :
          /\ ElementFailed(g) =>
                /\ ing[g].item_target \notin DOMAIN storage'
                /\ ing'[g].pc = "item_write"
                /\ ing'[g].index = ing[g].index + 1
                /\ ing[g].data_id \in DOMAIN db'.data_objects
          /\ LoopEnds(g) =>
                /\ ing'[g].pc = "remove_source"
                /\ ing[g].data_id \in DOMAIN db'.data_objects
                /\ Cardinality(ItemsOf(db', ing[g].data_id))
                       = ing[g].items_ingested_count
                /\ ing[g].items_ingested_count
                       >= Len(ing[g].json_content.items)
                              - (faults.inserts + faults.writes)
          /\ ContainerDone(g) =>
                /\ original_filename(g) \notin DOMAIN input_dir'
                /\ ing[g].data_id \in DOMAIN db'.data_objects]_vars

\* An array of MaxItems elements of which every one failed (one at its write,
\* one at its insert): the container is recorded with no item under it, no
\* blob of an element is left, and the source file is gone.
C11_Witness ==
    /\ faults.inserts = 1
    /\ faults.writes = 1
    /\ \E c \in Ids(db) :
          /\ db.data_objects[c].type = JSON_CONTAINER_TYPE
          /\ db.data_objects[c].name \notin DOMAIN input_dir
          /\ ItemsOf(db, c) = {}
          /\ DOMAIN storage = {db.data_objects[c].content_location}
          /\ Len(storage[db.data_objects[c].content_location].json.items) = MaxItems

\* In this step Ingestor g ends the handling of a file with the extension of
\* JSON whose content does not parse.
InvalidJsonDone(g) ==
    /\ FileDone(g)
    /\ ing[g].file_type = APPLICATION_JSON
    /\ original_filename(g) \in DOMAIN input_dir
    /\ input_dir[original_filename(g)].kind \in {"garbage", "undecodable"}

\* C12: when nothing has failed, the handling of a JSON-typed file that does
\* not parse ends with exactly one entry for it, of type
\* application/octet-stream and tagged invalid_json, and with the source file
\* removed, so that it is not there for the next scan.
C12_InvalidJsonIsRecorded ==
    [][\A g \in Ingestors :
          (InvalidJsonDone(g) /\ faults = NoFaults) =>
              LET name == original_filename(g)
              IN /\ Cardinality(TopLevel(db', name)) = 1
                 /\ \A i \in TopLevel(db', name) :
                       /\ db'.data_objects[i].type = OCTET_STREAM
                       /\ "invalid_json" \in TagsOf(db', i)
                 /\ name \notin DOMAIN input_dir']_vars

\* The immediate subdirectories of the input root.
Subdirectories(dir) == { n \in DOMAIN dir : dir[n].kind = "dir" }

\* In this step a scan of Ingestor g ends: ingest_new_data returns.
ScanEnds(g) ==
    /\ ing[g].pc = "next_file"
    /\ ing[g].files = <<>>
    /\ ing'[g].pc = "idle"

\* C13: when a scan in which nothing failed ends, no regular file is left
\* inside an immediate subdirectory of the input root (each was processed and
\* removed), and every entry of the catalog carries as source the name of a
\* subdirectory.
C13_SubdirectoriesAreScanned ==
    [][\A g \in Ingestors :
          (ScanEnds(g) /\ faults = NoFaults) =>
              /\ \A sub \in Subdirectories(input_dir') :
                    DOMAIN input_dir'[sub].entries = {}
              /\ \A i \in DOMAIN db'.data_objects :
                    db'.data_objects[i].source
                        \in { NameStr(sub) : sub \in DroppedNames }]_vars

\* C14: whatever fails while the Ingestor handles one file (the copy, the
\* removal of the source file, the database), the handling of that file ends
\* with the scan going on to the next name of the listing: no exception leaves
\* ingest_new_data.
C14_FailureContainedPerFile ==
    [][\A g \in Ingestors :
          FileDone(g) => ing'[g].pc = "next_file"]_vars

----------------------------------------------------------------------------
(* Claims about the catalog *)

\* In this step caller c's insert_data_object executes a statement or ends.
InsertStep(c) ==
    /\ conn[c].op = "insert"
    /\ conn[c].pc # "idle"
    /\ conn'[c].pc # conn[c].pc

\* The tags an insert with the tags argument `tags` must leave on the row.
NeededTags(tags) == IF tags = {} THEN {"unclassified"} ELSE tags

\* C15: insert_data_object is atomic.  The step in which it returns an id
\* leaves the row, every needed tag in the vocabulary and every association
\* of the row in the catalog and nothing else changed; every other step of
\* the call, up to and including the one in which it reports failure, leaves
\* the committed catalog as it was; and no step of any caller makes a row
\* appear without associations.
C15_InsertIsAtomic ==
    [][/\ \A c \in Clients :
            InsertStep(c) =>
               IF conn'[c].pc = "idle" /\ conn'[c].ret # NULL
               THEN LET id == conn'[c].ret
                    IN /\ id = conn[c].object_id
                       /\ Ids(db') = Ids(db) \cup {id}
                       /\ db'.data_objects[id] = UploadRow(c)
                       /\ TagsOf(db', id) = NeededTags(conn[c].tags)
                       /\ db'.tags = db.tags \cup NeededTags(conn[c].tags)
                       /\ \A i \in Ids(db) :
                             /\ db'.data_objects[i] = db.data_objects[i]
                             /\ TagsOf(db', i) = TagsOf(db, i)
               ELSE db' = db
       /\ \A i \in DOMAIN db'.data_objects \ Ids(db) : TagsOf(db', i) # {}]_vars

\* A transaction that holds the new row and its associations, uncommitted,
\* while the committed catalog has neither.
C15_Witness ==
    \E c \in DOMAIN conn :
        /\ conn[c].pc = "commit"
        /\ conn[c].object_id \in Ids(conn[c].txn)
        /\ TagsOf(conn[c].txn, conn[c].object_id) # {}
        /\ conn[c].object_id \notin Ids(db)
        /\ TagsOf(db, conn[c].object_id) = {}

\* C16: in every reachable state every entry of the catalog has at least one
\* tag.
C16_EveryEntryHasATag ==
    \A i \in Ids(db) : TagsOf(db, i) # {}

\* In this step caller c calls update_data_object.
UpdateStep(c) ==
    /\ conn'[c].op = "update"
    /\ conn'[c].calls = conn[c].calls + 1

\* C17 as stated: update_data_object on an existing entry changes only the
\* supplied fields and last_updated of that entry, not its id, and no field or
\* tag of another entry; the entry's tags become exactly the supplied set when
\* tags is supplied and stay as they were when it is not.
C17_UpdateChangesOnlySupplied ==
    [][\A c \in Clients :
          (UpdateStep(c) /\ conn'[c].object_id \in Ids(db)) =>
              LET id == conn'[c].object_id
                  fields == conn'[c].fields
                  tags == conn'[c].tags
                  supplied == (DOMAIN fields \cap Columns) \ {"last_updated"}
              IN /\ DOMAIN db'.data_objects = Ids(db)
                 /\ \A f \in Columns \ (supplied \cup {"last_updated"}) :
                       db'.data_objects[id][f] = db.data_objects[id][f]
                 /\ \A j \in Ids(db) \ {id} :
                       /\ db'.data_objects[j] = db.data_objects[j]
                       /\ TagsOf(db', j) = TagsOf(db, j)
                 /\ TagsOf(db', id) = IF tags = NoTags THEN TagsOf(db, id) ELSE tags]_vars

\* C17, amended: an update_data_object on an existing entry that returns True
\* sets the supplied fields and last_updated of that entry and changes no
\* other field of it, not its id, and no field or tag of another entry; the
\* entry's tags become exactly the supplied set when tags is supplied and stay
\* as they were when it is not.  An update that returns False (a supplied
\* source_original_id that names no entry) changes nothing, the tags included.
C17_SuccessfulUpdateChangesOnlySupplied ==
    [][\A c \in Clients :
          (UpdateStep(c) /\ conn'[c].object_id \in Ids(db)) =>
              LET id == conn'[c].object_id
                  fields == conn'[c].fields
                  tags == conn'[c].tags
                  supplied == (DOMAIN fields \cap Columns) \ {"last_updated"}
              IN IF conn'[c].ret = "True"
                 THEN /\ DOMAIN db'.data_objects = Ids(db)
                      /\ \A f \in supplied : db'.data_objects[id][f] = fields[f]
                      /\ db'.data_objects[id].last_updated = clock
                      /\ \A f \in Columns \ (supplied \cup {"last_updated"}) :
                            db'.data_objects[id][f] = db.data_objects[id][f]
                      /\ \A j \in Ids(db) \ {id} :
                            /\ db'.data_objects[j] = db.data_objects[j]
                            /\ TagsOf(db', j) = TagsOf(db, j)
                      /\ TagsOf(db', id) =
                            IF tags = NoTags THEN TagsOf(db, id) ELSE tags
                 ELSE /\ db' = db
                      /\ "source_original_id" \in DOMAIN fields
                      /\ fields.source_original_id \notin Ids(db)]_vars

\* An update that supplied a status and a tag list, one second after the
\* entry was recorded, has returned True.
C17_Witness ==
    \E c \in DOMAIN conn :
        /\ conn[c].op = "update"
        /\ conn[c].ret = "True"
        /\ conn[c].tags = {"finance", "report"}
        /\ conn[c].object_id \in Ids(db)
        /\ TagsOf(db, conn[c].object_id) = {"finance", "report"}
        /\ db.data_objects[conn[c].object_id].last_updated = NumEntries + 2

\* C18: update_data_object on an id that matches no row returns False and
\* leaves the rows, the associations and the tag vocabulary as they were,
\* with or without tags supplied.
C18_UpdateOfAbsentIdChangesNothing ==
    [][\A c \in Clients :
          (UpdateStep(c) /\ conn'[c].object_id \notin Ids(db)) =>
              /\ conn'[c].ret = "False"
              /\ db' = db]_vars

\* An update of an absent id that supplied a non-empty tag list has returned
\* False.
C18_Witness ==
    \E c \in DOMAIN conn :
        /\ conn[c].op = "update"
        /\ conn[c].object_id = Uuid(0)
        /\ conn[c].object_id \notin Ids(db)
        /\ conn[c].tags = {"finance", "report"}
        /\ conn[c].ret = "False"

\* In this step caller c calls delete_data_object.
DeleteStep(c) ==
    /\ conn'[c].op = "delete"
    /\ conn'[c].calls = conn[c].calls + 1

\* C19: once delete_data_object(id) has returned True, no entry whose
\* source_original_id is id remains, and no tag association of the entry or
\* of any of its items remains.
C19_DeleteCascades ==
    [][\A c \in Clients :
          (DeleteStep(c) /\ conn'[c].ret = "True") =>
              LET id == conn'[c].object_id
              IN /\ id \notin DOMAIN db'.data_objects
                 /\ ItemsOf(db', id) = {}
                 /\ \A p \in db'.data_object_tags :
                       p[1] \notin {id} \cup ItemsOf(db, id)]_vars

\* The first call deleted the seeded container: its item is gone with it.
C19_Witness ==
    \E c \in DOMAIN conn :
        /\ conn[c].op = "delete"
        /\ conn[c].calls = 1
        /\ conn[c].ret = "True"
        /\ conn[c].object_id = Uuid(1)
        /\ "json_container" \in db.tags
        /\ Uuid(2) \notin Ids(db)
        /\ \A p \in db.data_object_tags : p[1] \notin {Uuid(1), Uuid(2)}

\* pattern is a substring of name.
HasSubstring(name, pattern) ==
    \E i \in 1..(Len(name) - Len(pattern) + 1) :
        SubSeq(name, i, i + Len(pattern) - 1) = pattern

\* In this step caller c calls get_data_objects with a list of tag patterns.
ListStep(c) ==
    /\ conn'[c].op = "list"
    /\ conn'[c].calls = conn[c].calls + 1

\* C20: get_data_objects with N >= 1 tag patterns returns exactly the entries
\* that have, for each pattern, a tag containing it as a substring.
C20_TagFilterCoversAllPatterns ==
    [][\A c \in Clients :
          ListStep(c) =>
              conn'[c].seen =
                  { i \in Ids(db) :
                      \A k \in 1..Len(conn'[c].patterns) :
                         \E t \in TagsOf(db, i) :
                            HasSubstring(t, conn'[c].patterns[k]) }]_vars

\* In this step caller c calls get_data_objects_count.
CountStep(c) ==
    /\ conn'[c].op = "count"
    /\ conn'[c].calls = conn[c].calls + 1

\* What get_data_objects returns for filter f with offset 0 and a limit no
\* smaller than the catalog.
ListedUnder(d, f) ==
    get_data_objects(d, f.status, f.file_type, f.name_like, f.tags,
                     Cardinality(Ids(d)))

\* C21: get_data_objects_count returns exactly the number of entries that
\* get_data_objects returns for the same filter with offset 0 and no
\* effective limit.
C21_CountEqualsListLength ==
    [][\A c \in Clients :
          CountStep(c) =>
              \A s \in ListedUnder(db, conn'[c].where) :
                  conn'[c].ret = NatToStr(Len(s))]_vars

\* In this step caller c calls get_data_object_by_id.
GetStep(c) ==
    /\ conn'[c].op = "get"
    /\ conn'[c].calls = conn[c].calls + 1

\* C22: when insert_data_object was given a non-empty tags list and returned
\* an id, get_data_object_by_id of that id yields the tag set equal to the
\* input list deduplicated and case-normalized.
C22_InsertedTagsAreNormalized ==
    [][\A c, inserter \in Clients :
          /\ GetStep(c)
          /\ conn[inserter].op = "insert"
          /\ conn[inserter].tags_list # <<>>
          /\ conn[inserter].ret = conn'[c].object_id
          /\ conn'[c].obj # NoObj
          => conn'[c].obj.tags =
                 { LowerStrip(t) : t \in Range(conn[inserter].tags_list) }]_vars

\* C23: a tag leaves the vocabulary once no entry references it.  After a
\* delete, or an update that replaces an entry's tags, has completed, every
\* tag of the vocabulary is associated with at least one entry.
C23_UnreferencedTagsAreRemoved ==
    [][\A c \in Clients :
          /\ DeleteStep(c) \/ (UpdateStep(c) /\ conn'[c].tags # NoTags)
          /\ conn'[c].ret = "True"
          => \A t \in db'.tags : \E p \in db'.data_object_tags : p[2] = t]_vars

----------------------------------------------------------------------------
(* Claims about the tag graph *)

\* In this step caller c calls get_tag_graph_data.
GraphStep(c) ==
    /\ conn'[c].op = "graph"
    /\ conn'[c].calls = conn[c].calls + 1

\* The number of entries associated with tag t.
Frequency(d, t) == Cardinality({ i \in Ids(d) : <<i, t>> \in d.data_object_tags })

\* C24: the nodes get_tag_graph_data returns are exactly the tag names not in
\* the stop list whose number of associated entries is at least
\* min_frequency, each with that number as its weight.
C24_NodesAreFrequentTags ==
    [][\A c \in Clients :
          GraphStep(c) =>
              { [name |-> n.name, value |-> n.value] : n \in conn'[c].graph.nodes }
                = { [name |-> t, value |-> Frequency(db, t)] :
                    t \in { u \in db.tags \ SYSTEM_TAG_STOP_LIST :
                              Frequency(db, u) >= conn'[c].fields.min_frequency } }]_vars

\* The number of entries that carry both tags.
Shared(d, a, b) ==
    Cardinality({ i \in Ids(d) :
                    <<i, a>> \in d.data_object_tags /\ <<i, b>> \in d.data_object_tags })

\* The unordered pairs the links of a graph join.
Joined(graph) == { {l.source, l.target} : l \in graph.links }

\* No link joins a tag to itself, no pair is linked twice, and a link's
\* value is the number of entries that carry both its tags.
LinksWellFormed(d, graph) ==
    /\ \A l \in graph.links :
          l.source # l.target /\ l.value = Shared(d, l.source, l.target)
    /\ Cardinality(graph.links) = Cardinality(Joined(graph))

\* C25 as stated: the links are exactly the unordered pairs of distinct
\* returned nodes whose number of shared entries is at least
\* min_link_strength, each once, none joining a tag to itself, its value the
\* number of entries carrying both tags.
C25_LinksAsStated ==
    [][\A c \in Clients :
          GraphStep(c) =>
              LET graph == conn'[c].graph
                  names == { n.name : n \in graph.nodes }
              IN /\ LinksWellFormed(db, graph)
                 /\ Joined(graph) =
                      { {a, b} : <<a, b>> \in
                          { p \in names \X names :
                              /\ p[1] # p[2]
                              /\ Shared(db, p[1], p[2])
                                     >= conn'[c].fields.min_link_strength } }]_vars

\* C25, amended: the links are exactly the unordered pairs of distinct
\* returned nodes that share at least one entry and whose number of shared
\* entries is at least min_link_strength; each pair is emitted once, no link
\* joins a tag to itself, and a link's value is the number of entries
\* carrying both tags.
C25_LinksAreCooccurringNodes ==
    [][\A c \in Clients :
          GraphStep(c) =>
              LET graph == conn'[c].graph
                  names == { n.name : n \in graph.nodes }
              IN /\ LinksWellFormed(db, graph)
                 /\ Joined(graph) =
                      { {a, b} : <<a, b>> \in
                          { p \in names \X names :
                              /\ p[1] # p[2]
                              /\ Shared(db, p[1], p[2]) >= 1
                              /\ Shared(db, p[1], p[2])
                                     >= conn'[c].fields.min_link_strength } }]_vars

\* A graph was returned with a link of strength two between finance and
\* report, and without the pair of json and report, which two entries share:
\* json is no node.
C25_Witness ==
    \E c \in Clients :
        /\ conn[c].op = "graph"
        /\ \E l \in conn[c].graph.links :
              /\ l.value = 2
              /\ {l.source, l.target} = {"finance", "report"}
        /\ "json" \notin { n.name : n \in conn[c].graph.nodes }
        /\ Shared(db, "json", "report") = 2

----------------------------------------------------------------------------
(* Claims about the facade *)

\* C26: in every reachable state every entry's quality_score is a number in
\* [0,1] (0..1000 thousandths), whatever insert, update, facade create or
\* facade update wrote it.
C26_ScoreInRange ==
    \A i \in Ids(db) : db.data_objects[i].quality_score \in 0..1000

\* C28: in every reachable state every entry of type json_item has a
\* source_original_id that names an entry the catalog holds as a container or
\* held earlier, and a source_item_key that is the decimal string of an array
\* index.
C28_ItemsHaveLineage ==
    \A i \in Ids(db) :
        db.data_objects[i].type = JSON_ITEM_TYPE =>
            /\ \E n \in 1..uuids : db.data_objects[i].source_original_id = Uuid(n)
            /\ db.data_objects[i].source_original_id \in Ids(db) =>
                  db.data_objects[db.data_objects[i].source_original_id].type
                     = JSON_CONTAINER_TYPE
            /\ \E k \in 0..MaxItems : db.data_objects[i].source_item_key = NatToStr(k)

\* In this step request thread c answers a request.
ApiStep(c) ==
    /\ conn'[c].response.code # NULL
    /\ conn'[c].calls = conn[c].calls + 1

----------------------------------------------------------------------------
(* Claims about the Classifier's use of the external model *)

\* In this step replica r runs the dispatch of lines 256-287 on its entry.
AnalyseStep(r) ==
    /\ proc[r].pc = "analyse"
    /\ proc'[r].pc \notin {"analyse", "crashed"}

\* The dispatch calls the tagging service for the entry: a text entry or an
\* image entry whose blob is there to send, or an entry of another type that
\* is neither JSON nor a container.
TaggingCalled(r) ==
    LET t == Obj(r).row.type
    IN IF t[1] \in {"text", "image"} THEN BlobExists(Obj(r).row.content_location)
       ELSE t \notin {APPLICATION_JSON, JSON_ITEM_TYPE, JSON_CONTAINER_TYPE}

\* The dispatch calls the scoring service for the entry: as for tagging, and
\* for a container.
ScoringCalled(r) == TaggingCalled(r) \/ Obj(r).row.type = JSON_CONTAINER_TYPE

\* The failure marker of the tagging function the dispatch uses.
FailureMarker(r) ==
    IF Obj(r).row.type[1] = "image" THEN "image_llm_failed" ELSE "text_llm_failed"

\* The scoring answer is missing or holds no whole number.
Unparseable(answer) == answer = NULL \/ \A k \in 0..300 : NatToStr(k) # answer

\* In this step replica r writes the result of its analysis.
PersistStep(r) ==
    /\ proc[r].pc = "persist"
    /\ proc'[r].pc \notin {"persist", "crashed"}

\* C27: when a call to the external tagging or scoring service fails or
\* answers what cannot be parsed, the dispatch does not raise: it goes on to
\* persist with the failure marker as the model's tags and the neutral score
\* 0.5, and the persist step writes the entry, if it is still in the
\* catalog, as classified with the marker among its tags.
C27_ScorerFailureFallsBack ==
    [][\A r \in Replicas :
          /\ AnalyseStep(r) /\ ScoringCalled(r) =>
                /\ proc'[r].pc = "persist"
                /\ TaggingCalled(r) /\ proc'[r].answers[1] = NULL =>
                      proc'[r].tags_llm = {FailureMarker(r)}
                /\ Unparseable(proc'[r].answers[2]) => proc'[r].score_llm = 500
          /\ PersistStep(r) /\ Obj(r).id \in Ids(db) =>
                /\ db'.data_objects[Obj(r).id].status = "classified"
                /\ proc[r].tags_llm \subseteq TagsOf(db', Obj(r).id)
                     \/ proc[r].answers[1] # NULL]_vars

\* An entry has been classified while the service was down: it carries the
\* failure marker of the tagging call.
C27_Witness ==
    \E i \in Ids(db) :
        /\ db.data_objects[i].status = "classified"
        /\ "text_llm_failed" \in TagsOf(db, i)
        /\ db.data_objects[i].quality_score \in 0..1000

\* ---------------------------------------------------------------------------
\* Claims about the tags the Classifier persists
\* ---------------------------------------------------------------------------

\* Replica r's persist step writes its entry, which is still in the catalog.
PersistWrites(r) == PersistStep(r) /\ Obj(r).id \in Ids(db)

\* The lower-cased, de-duplicated union of the three tag sources the merge is
\* stated over: the tags the entry was fetched with other than unclassified,
\* the tags of its file name, and the tags the tagging of the dispatch made.
StatedUnion(r) ==
    { LowerStrip(t) :
        t \in { u \in (Obj(r).tags \ {"unclassified"})
                       \cup extract_tags_from_filename(Obj(r).row.name)
                       \cup proc[r].tags_llm : LowerStrip(u) # "" } }

\* The persisted tag set is the stated union, or {unclassified} when the
\* union is empty.
PersistsStatedUnion(r) ==
    TagsOf(db', Obj(r).id) =
        IF StatedUnion(r) = {} THEN {"unclassified"} ELSE StatedUnion(r)

\* The entry carries unclassified only when it has no other tag.
UnclassifiedOnlyAlone(r) ==
    "unclassified" \in TagsOf(db', Obj(r).id) =>
        TagsOf(db', Obj(r).id) = {"unclassified"}

\* C30: the tag set the Classifier persists for a classified entry is the
\* de-duplicated, lower-cased union of the entry's existing tags other than
\* unclassified, its filename tags and the external model's tags, and is
\* {unclassified} when that union is empty; a classified entry carries
\* unclassified only when it has no other tag.
C30_PersistedTagsAreMergedSources ==
    [][\A r \in Replicas :
          PersistWrites(r) => PersistsStatedUnion(r) /\ UnclassifiedOnlyAlone(r)]_vars

\* ---------------------------------------------------------------------------
\* Claims about the quality score
\* ---------------------------------------------------------------------------

\* File sizes, character counts and pixel counts on both sides of every
\* threshold of the heuristics.
SizeGrid == {0, 99, 9999, 10000, 10240, 10241, 100000, 100001, 999999, 1000000, 1000001}
CharGrid == {0, 1, 100, 101, 2000, 2001}
PixelGrid == {0, 249999, 250000, 999999, 1000000}

\* Every value a heuristic returns on the grids.
HeuristicOutcomes ==
    { simple_score_text_quality(chars, size, replacement) :
        chars \in CharGrid, size \in SizeGrid, replacement \in BOOLEAN }
    \cup { simple_score_image_quality(pixels, size) :
             pixels \in PixelGrid, size \in SizeGrid }
    \cup { simple_score_other_quality(obj_type, size, Name(<<"dump">>, ext)) :
             obj_type \in {OCTET_STREAM, JSON_CONTAINER_TYPE}, size \in SizeGrid,
             ext \in {"bin", "pdf", "csv"} }

\* Every value the scoring call leaves: an answer's score, and the 0.1 of an
\* image that cannot be read.
ModelOutcomes == { qwen_score(answer) : answer \in LLM_SCORE_ANSWERS } \cup {100}

\* The weighted sum of any outcome of the scorer and any outcome of a
\* heuristic lies in [0,1].
WeightedSumsInUnitInterval ==
    \A score_llm \in ModelOutcomes, score_simple \in HeuristicOutcomes :
        final_score(score_llm, score_simple) \in 0..1000

\* C31: for every entry type and every combination of an outcome of the
\* external scorer (a number, also one above 100; no answer; an answer without
\* a number) and an outcome of the heuristic, the final score the Classifier
\* persists lies in [0,1]: both estimates do after the dispatch, the weighted
\* sum of any two outcomes does, and so does the score each persist step
\* writes.
C31_FinalScoreInUnitInterval ==
    [][/\ WeightedSumsInUnitInterval
       /\ \A r \in Replicas :
             /\ AnalyseStep(r) /\ proc'[r].pc = "persist" =>
                   /\ proc'[r].score_llm \in 0..1000
                   /\ proc'[r].score_simple \in 0..1000
             /\ PersistWrites(r) =>
                   db'.data_objects[Obj(r).id].quality_score \in 0..1000]_vars

\* The scorer has answered 250 for an entry and the estimate was cut to 1.0.
C31_Witness ==
    \E r \in Replicas :
        /\ proc[r].pc = "persist"
        /\ proc[r].answers[2] = "250"
        /\ proc[r].score_llm = 1000

\* The distance of two scores.
Distance(a, b) == IF a >= b THEN a - b ELSE b - a

\* Replica r is about to persist a score for which the external scorer gave
\* no usable answer: the model estimate is the default 0.5.
ScorerFailed(r) ==
    /\ Unparseable(proc[r].answers[2])
    /\ proc[r].score_llm = 500

\* C32: the weighting of the final score depends on whether the external
\* scorer succeeded and lies heavily with the heuristic when it failed: the
\* score persisted after a failed scoring call is no farther from the
\* heuristic estimate than from the model's default.
C32_FailedScorerShiftsToHeuristic ==
    [][\A r \in Replicas :
          PersistWrites(r) /\ ScorerFailed(r) =>
              Distance(db'.data_objects[Obj(r).id].quality_score, proc[r].score_simple)
                  <= Distance(db'.data_objects[Obj(r).id].quality_score, proc[r].score_llm)]_vars

\* ---------------------------------------------------------------------------
\* Claims about the names of stored blobs
\* ---------------------------------------------------------------------------

\* In this step Ingestor g copies a dropped file into the storage directory
\* (shutil.copy, whether or not it completes).
CopyStep(g) ==
    /\ ing[g].pc = "copy"
    /\ original_filename(g) \in DOMAIN input_dir
    /\ ing'[g].pc \in {"parse", "insert", "except_outer"}

\* In this step Ingestor g opens the file of an element of an array for
\* writing.
ItemWriteStep(g) ==
    /\ ing[g].pc = "item_write"
    /\ ing'[g].pc = "item_insert"

\* C33: storing a blob never overwrites an existing blob: the path a copy of
\* a dropped file or the write of an element goes to names no blob that is
\* in storage, also when two paths were generated in the same tick of the
\* clock and when a dropped file has the name of an element, a_item_0.json.
C33_StoreNeverOverwrites ==
    [][\A g \in DOMAIN ing :
          /\ CopyStep(g) => ~BlobExists(ing[g].target)
          /\ ItemWriteStep(g) => ~BlobExists(ing'[g].item_target)]_vars

\* ---------------------------------------------------------------------------
\* Claims about the facade's DELETE
\* ---------------------------------------------------------------------------

\* In this step the facade finishes the DELETE of entry i: the blob was
\* removed in the step before, now the row is deleted.
ApiDeleteDone(i) == api = {i} /\ api' = {}

\* C34: after the facade deletes an entry, neither its row nor its blob
\* remains; after it deletes a container, none of the rows of the
\* container's items remains and none of the items' blobs remains in
\* storage.
C34_DeleteLeavesNoRowAndNoBlob ==
    [][\A i \in Ids(db) :
          ApiDeleteDone(i) =>
              /\ i \notin Ids(db')
              /\ db.data_objects[i].content_location \notin DOMAIN storage'
              /\ \A j \in ItemsOf(db, i) :
                    /\ j \notin Ids(db')
                    /\ db.data_objects[j].content_location \notin DOMAIN storage']_vars

\* ---------------------------------------------------------------------------
\* Claims about referential integrity
\* ---------------------------------------------------------------------------

\* Every source_original_id that is not NULL names a row of d, and every tag
\* association names a row and a tag of d.
ReferencesResolve(d) ==
    /\ \A i \in Ids(d) :
          d.data_objects[i].source_original_id \in Ids(d) \cup {NULL}
    /\ \A p \in d.data_object_tags : p[1] \in Ids(d) /\ p[2] \in d.tags

\* In this step caller c's insert_data_object runs its INSERT of a row whose
\* source_original_id names no row.
InsertOfOrphan(c) ==
    /\ conn[c].pc = "insert_row"
    /\ conn'[c].pc # "insert_row"
    /\ conn[c].parent \notin Ids(db) \cup {NULL}

\* In this step caller c calls update_data_object with a source_original_id
\* that names no row, or with tags for an id that names no row.
UpdateToDangling(c) ==
    /\ UpdateStep(c)
    /\ \/ /\ "source_original_id" \in DOMAIN conn'[c].fields
          /\ conn'[c].fields.source_original_id \notin Ids(db) \cup {NULL}
          /\ conn'[c].object_id \in Ids(db)
       \/ /\ conn'[c].object_id \notin Ids(db)
          /\ conn'[c].tags \notin {NoTags, {}}

\* C35: referential integrity holds in every reachable state: every
\* source_original_id that is not NULL names an entry that exists, every tag
\* association names an existing entry and an existing tag; an insert or an
\* update that would break this fails and changes nothing.
C35_ReferentialIntegrity ==
    [][/\ ReferencesResolve(db')
       /\ \A c \in Clients :
             /\ conn[c].pc # "idle" => ReferencesResolve(conn[c].txn)
             /\ InsertOfOrphan(c) => conn'[c].pc = "rollback" /\ db' = db
             /\ conn[c].pc = "rollback" /\ conn'[c].pc = "idle" =>
                   db' = db /\ conn'[c].ret = NULL
             /\ UpdateToDangling(c) => db' = db /\ conn'[c].ret = "False"]_vars

\* An update that would have left a source_original_id naming no row has
\* been refused.
C35_Witness ==
    \E c \in Clients :
        /\ conn[c].op = "update"
        /\ "source_original_id" \in DOMAIN conn[c].fields
        /\ conn[c].object_id \in Ids(db)
        /\ conn[c].ret = "False"

\* ---------------------------------------------------------------------------
\* Claims about a DELETE beside the Classifier
\* ---------------------------------------------------------------------------

\* Replica r is working on an entry it fetched and whose row has been
\* deleted since.
DeletedUnderway(r) == InRun(r) /\ Obj(r).id \notin Ids(db)

\* In this step replica r runs a statement of process_data_objects.
ClassifierActs(r) == proc'[r] # proc[r] /\ proc'[r].pc # "crashed"

\* In this step replica r makes its final update for its entry.
FinalUpdate(r) ==
    /\ proc[r].pc \in {"persist", "handle_file_not_found"}
    /\ ClassifierActs(r)

\* No update of the Classifier for a deleted entry changes the catalog: the
\* row is not recreated, no association is left for its id, no tag is added
\* to the vocabulary.
DeletedStaysDeleted ==
    \A r \in Replicas : DeletedUnderway(r) /\ ClassifierActs(r) => db' = db

\* The batch goes on: no step on a deleted entry leaves
\* process_data_objects with an exception, and the final update is followed
\* by the next entry of the batch.
BatchGoesOn ==
    \A r \in Replicas :
        DeletedUnderway(r) /\ ClassifierActs(r) =>
            /\ proc'[r].pc # "raised"
            /\ FinalUpdate(r) => proc'[r] = NextObject(r)

\* C36: if an entry is deleted after the Classifier fetched it and before
\* the Classifier's final update, the Classifier's updates do not recreate
\* the row, leave no tag association for the deleted id and add no tag to
\* the vocabulary, and the batch goes on with the next entry.
C36_DeletedEntryIsNotRecreated ==
    [][DeletedStaysDeleted /\ BatchGoesOn]_vars

\* ---------------------------------------------------------------------------
\* Claims about the blobs of recorded entries
\* ---------------------------------------------------------------------------

\* Ingestor g has completed a scan and waits for the next one.
ScanCompleted(g) == ing[g].pc = "idle" /\ ing[g].scans > 0

\* C37: after a scan completes, every catalog entry the Ingestor created has
\* a content_location that names a blob present in storage: the Ingestor
\* never removes the blob of a recorded entry, also when a later step for
\* the same file, such as the removal of the source file, fails.
C37_RecordedEntriesKeepTheirBlob ==
    \A g \in DOMAIN ing :
        ScanCompleted(g) =>
            \A i \in Ids(db) : BlobExists(db.data_objects[i].content_location)

\* ---------------------------------------------------------------------------
\* Claims about a tag update beside the Classifier
\* ---------------------------------------------------------------------------

\* The tags of replica r's entry that were committed after r fetched it: the
\* Classifier's own updates before the final one leave the tags alone.
TagsAddedSinceFetch(r) == TagsOf(db, Obj(r).id) \ Obj(r).tags

\* C38: a tag change the facade commits to an entry between the Classifier's
\* fetch of the entry and the Classifier's final update is still reflected
\* in the entry's tags after classification: the tags added in between are
\* among the tags the final update leaves.
C38_ConcurrentTagUpdateSurvives ==
    [][\A r \in Replicas :
          PersistWrites(r) => TagsAddedSinceFetch(r) \subseteq TagsOf(db', Obj(r).id)]_vars

\* ---------------------------------------------------------------------------
\* Claims about Ingestor replicas
\* ---------------------------------------------------------------------------

\* C39: when two Ingestor replicas scan the same input directory
\* concurrently, each dropped file yields one top-level catalog entry, not
\* two, and no replica's scan is aborted because the other replica has
\* removed a source file.
C39_ReplicasRecordEachFileOnce ==
    /\ \A name \in ReplicaDrops : Cardinality(TopLevel(db, name)) <= 1
    /\ \A g \in DOMAIN ing : ing[g].pc # "aborted"


----------------------------------------------------------------------------
(* C40: the backlog of new entries drains *)

IsNew(i) == i \in Ids(db) /\ Status(i) = "new"

HasLeftNew(i) == i \in Ids(db) /\ Status(i) # "new"

\* C40: under the fair service loop every entry with status new leaves that
\* status, the entries outside the first batch of BATCH_LIMIT included, and
\* also after batches ended by an exception, a missing blob or a crash.
C40_NewEntryIsClaimed ==
    \A i \in BacklogIds : IsNew(i) ~> HasLeftNew(i)

\* The whole backlog has left status new although a batch met a missing
\* blob, the process died once, and the catalog is larger than one batch.
C40_Witness ==
    /\ Cardinality(Ids(db)) > BATCH_LIMIT
    /\ faults.crashes > 0
    /\ \E i \in Ids(db) : Status(i) = "error"
    /\ \E i \in Ids(db) : Status(i) = "processing"
    /\ \A i \in Ids(db) : Status(i) # "new"

====
